---------------------------- MODULE Spec2Model ----------------------------
(***************************************************************************)
(* Iteration synchronisation and data transport of the fuzzing harness:    *)
(*   - the control process (confuse-host-if/confuse_ll.c, the fuzzing loop *)
(*     of confuse-afl/fake_harness.cpp and the forkserver adapter          *)
(*     confuse-afl/confuse-afl-wrapper.cpp),                               *)
(*   - the simulator process (simics/modules/confuse_ll, confuse_dio and   *)
(*     the afl-branch-tracer),                                             *)
(*   - the software under test using the magic pipe library                *)
(*     (simics/target-sw/MagicPipeLib, simple-example/HelloFuzzing).       *)
(***************************************************************************)
EXTENDS Integers, Sequences, FiniteSets, TLC

(***************************************************************************)
(* Bounds of the model.                                                    *)
(***************************************************************************)
\* retry answers the receiver may give to one pipe_send_buf
MaxRetry == 2
\* pipe_send_buf calls of the library client of SpecPipe
MaxSends == 2
\* pipe_add_used calls of the library client
MaxAdds == 1
\* iterations of the fuzzing loop (the loop of main runs 1000)
MaxIter == 1
\* coverage records of one execution
MaxRec == 1
\* notifications of the free-running notifier
MaxNotify == 4
\* a length word larger than any buffer
BigLen == 1073741824

(***************************************************************************)
(* Program constants.                                                      *)
(***************************************************************************)
SIZEOF_PIPE_HEADER == 16
PageSize == 4096
UsedBits == 28
\* PIPE_MAGIC 0x42420f8f8ab14242, as the bytes of the target (little endian)
PIPE_MAGIC == <<66, 66, 177, 138, 143, 15, 66, 66>>

Pow2(n) == 2 ^ n

(***************************************************************************)
(* pipe-header.c: the 16-byte header.  The 64-bit magic is kept as its 8   *)
(* bytes, the 32-bit used word as its three fields: used (bits 0..27),     *)
(* rsvd (bits 28..30) and retry (bit 31).                                  *)
(***************************************************************************)
pipe_header_get_magic(h) == h.magic

pipe_header_set_magic(h, magic) == [h EXCEPT !.magic = magic]

pipe_header_get_size(h) == (h.pages + 1) * PageSize

\* a page count that includes the first page
SetSizeAllPages(h, size) ==
    [h EXCEPT !.pages = (size \div PageSize) % Pow2(16)]

pipe_header_set_size(h, size) ==
    [h EXCEPT !.pages = ((size \div PageSize) - 1) % Pow2(16)]

pipe_header_get_used(h) == h.used

\* a used word that is overwritten as a whole
SetUsedWord(h, used) ==
    [h EXCEPT !.used = used % Pow2(UsedBits), !.rsvd = 0, !.retry = 0]

pipe_header_set_used(h, used) == [h EXCEPT !.used = used % Pow2(UsedBits)]

pipe_header_get_retry(h) == h.retry = 1

pipe_header_set_retry(h, retry) == [h EXCEPT !.retry = IF retry THEN 1 ELSE 0]

pipe_header_get_csum(h) == h.csum

\* the 16 bytes of struct pipe_header with the csum field as given
HeaderBytes(h, csum) ==
    h.magic \o
    << h.pages % 256, h.pages \div 256,
       csum % 256, csum \div 256,
       h.used % 256, (h.used \div 256) % 256, (h.used \div 65536) % 256,
       (h.used \div 16777216) + 16 * h.rsvd + 128 * h.retry >>

\* struct pipe_header as read from its 16 bytes
HeaderOf(b) ==
    [magic |-> SubSeq(b, 1, 8),
     pages |-> b[9] + 256 * b[10],
     csum |-> b[11] + 256 * b[12],
     used |-> b[13] + 256 * b[14] + 65536 * b[15] + 16777216 * (b[16] % 16),
     rsvd |-> (b[16] \div 16) % 8,
     retry |-> b[16] \div 128]

RECURSIVE FletcherAcc(_, _, _, _)
FletcherAcc(data, i, acu1, acu2) ==
    IF i > Len(data) THEN <<acu1, acu2>>
    ELSE LET a1 == acu1 + 1 + data[i]
         IN  FletcherAcc(data, i + 1, a1, acu2 + a1)

Reduce8(acu) ==
    (acu + (acu \div 256) + (acu \div 65536) + (acu \div 16777216)) % 256

fletcher16(data) ==
    LET acc == FletcherAcc(data, 1, 255, 255)
    IN  Reduce8(acc[2]) * 256 + Reduce8(acc[1])

\* a checksum over the header as it is stored
CsumOverStored(h) == fletcher16(HeaderBytes(h, h.csum))

\* pipe-header.c 143-149: the checksum of a copy with csum = 0
pipe_header_calc_csum(h) == fletcher16(HeaderBytes(h, 0))

pipe_header_set_csum(h) == [h EXCEPT !.csum = pipe_header_calc_csum(h)]

pipe_header_csum_ok(h) == pipe_header_get_csum(h) = pipe_header_calc_csum(h)

pipe_header_size_ok(h) ==
    SIZEOF_PIPE_HEADER + pipe_header_get_used(h) <= pipe_header_get_size(h)

(***************************************************************************)
(* magic-pipe.c: the library of the software under test.                   *)
(***************************************************************************)
\* size_t: a value 2^64 - k passed by a caller is written -k; sums stay
\* exact modulo 2^64, and the unsigned order puts those values above the
\* others
ULe(a, b) == IF (a < 0) = (b < 0) THEN a <= b ELSE b < 0

calc_map_size(len) == ((len + PageSize - 1) \div PageSize) * PageSize

calc_aligned(len, align_bits) ==
    ((len + Pow2(align_bits) - 1) \div Pow2(align_bits)) * Pow2(align_bits)

\* a buffer as map_proto_buf returns it: zeroed pages, the size set
\* pipe-unix.c 27-32: AllocatePool hands out memory that is not cleared; the
\* header words of a fresh buffer are whatever the pool held
pipemem_alloc ==
    {[magic |-> <<0, 0, 0, 0, 0, 0, 0, 0>>, pages |-> 0, csum |-> 0,
      used |-> 0, rsvd |-> 0, retry |-> 0],
     [magic |-> <<0, 0, 0, 0, 0, 0, 0, 0>>, pages |-> 0, csum |-> 7,
      used |-> 5, rsvd |-> 3, retry |-> 1]}

\* pipeos.h 27
MP_EINVAL == 22
\* magic-pipe.c 78, 154: the largest buffer
MaxMapSize == 256 * 1024 * 1024

\* pipe-unix.c 65-69: errno after AllocatePool returned NULL; AllocatePool
\* does not set it
pipeos_errno == {0, 12}

\* magic-pipe.c 154: the size check of pipe_alloc_buf
AllocAccepts(size) == ULe(size, MaxMapSize - SIZEOF_PIPE_HEADER)

\* magic-pipe.c 71-89
map_proto_buf(len, raw) == pipe_header_set_size(raw, calc_map_size(len))

\* magic-pipe.c 151-167, for a size that is accepted
pipe_alloc_buf(size, raw) == map_proto_buf(size + SIZEOF_PIPE_HEADER, raw)

pipe_open(magic) == [magic |-> magic, count |-> 0]

pipe_get_magic(p) == p.magic

pipe_buf_used(h) == pipe_header_get_used(h)

pipe_buf_left(h) ==
    pipe_header_get_size(h) - (SIZEOF_PIPE_HEADER + pipe_header_get_used(h))

\* the assertion of pipe_add_used
AddUsedFits(h, len, align_bits) ==
    ULe(calc_aligned(pipe_header_get_used(h), align_bits) + len
            + SIZEOF_PIPE_HEADER,
        pipe_header_get_size(h))

pipe_add_used(h, len, align_bits) ==
    pipe_header_set_used(h, calc_aligned(pipe_header_get_used(h), align_bits) + len)

pipe_clear_buf(h) ==
    IF pipe_buf_used(h) # 0 THEN pipe_header_set_used(h, 0) ELSE h

\* a byte of pool memory that was not cleared
PoolByte == 170

\* pipe-unix.c 27-32 and magic-pipe.c 93-111: the memory of a new buffer
\* with its header raw: real bytes, the bytes written since (wr), and the
\* bytes the pool left everywhere else (fill)
new_buf_desc(len, raw) ==
    [head |-> map_proto_buf(len, raw),
     real |-> calc_map_size(len),
     wr |-> <<>>,
     fill |-> IF raw.used = 0 /\ raw.retry = 0 THEN 0 ELSE PoolByte]

\* pipe-unix.c 34-45: pipemem_realloc copies the first min(sz, new_sz) bytes
pipemem_realloc(b, sz, new_sz) ==
    LET cpy == IF sz < new_sz THEN sz ELSE new_sz
    IN  [b EXCEPT !.real = new_sz,
                  !.wr = [i \in 1..Len(b.wr) |->
                             IF SIZEOF_PIPE_HEADER + b.wr[i].off + b.wr[i].len
                                    <= cpy
                             THEN b.wr[i]
                             ELSE [b.wr[i] EXCEPT !.val = PoolByte]]]

\* magic-pipe.c 173-174: new_size of pipe_grow_buf
GrowSize(h, len) == calc_map_size(pipe_header_get_size(h) + len)

\* magic-pipe.c 169-182: pipe_grow_buf when pipemem_realloc succeeds
pipe_grow_buf(b, len) ==
    LET m == pipemem_realloc(b, pipe_header_get_size(b.head),
                             GrowSize(b.head, len))
    IN  [m EXCEPT !.head = pipe_header_set_size(m.head, GrowSize(b.head, len))]

\* a free that unlinks the first buffer of the list
FreeFirst(l, buf) == IF l = <<>> THEN l ELSE Tail(l)

\* magic-pipe.c 263-283: the list pipe->bufs after pipe_free_buf
RECURSIVE pipe_free_buf(_, _)
pipe_free_buf(l, buf) ==
    IF l = <<>> THEN l
    ELSE IF Head(l) = buf THEN Tail(l)
    ELSE <<Head(l)>> \o pipe_free_buf(Tail(l), buf)

\* pipe_send_buf up to its first trigger_magic
SendPrepare(p, h) ==
    [pipe |-> [p EXCEPT !.count = @ + 1],
     head |-> pipe_header_set_csum(pipe_header_set_magic(h, p.magic)),
     used |-> pipe_header_get_used(h)]

\* the body of the retry loop of pipe_send_buf up to its trigger_magic
SendRetry(p, h, used) ==
    [pipe |-> [p EXCEPT !.count = @ + 1],
     head |-> pipe_header_set_csum(
                  pipe_header_set_used(pipe_header_set_retry(h, FALSE), used))]

\* a send that keeps the magic of the handle
KeepMagic(p, h) == p

\* pipe_send_buf after the loop
SendFinish(p, h) == [p EXCEPT !.magic = pipe_header_get_magic(h)]

\* magic-pipe.c 234-261: pipe_send_buf as a whole, when the receiver sets
\* the retry bit n times (0 or 1) and then answers with the header ans
pipe_send_buf(p, h, n, ans) ==
    LET r0 == SendPrepare(p, h)
        r1 == IF n = 0 THEN r0
              ELSE SendRetry(r0.pipe, pipe_header_set_retry(r0.head, TRUE),
                             r0.used)
    IN  [pipe |-> SendFinish(r1.pipe, ans), head |-> ans]


(***************************************************************************)
(* State.                                                                  *)
(***************************************************************************)
VARIABLES
    \* control process: confuse_ll.c and the loop of fake_harness.cpp
    hpc,                    \* position of the control process
    wret,                   \* caller of wait_for_simics: init, reset, run
    rv,                     \* return value of the last confuse_* call
    sig_usr2_from_simics,   \* static int sig_usr2_from_simics
    hsig,                   \* SIGUSR2 of the control process:
                            \*   installed (handler), blocked (mask), pending
    simics,                 \* simics_handle: 0, or 1 for the forked child
    iter,                   \* loop counter i of main
    \* forkserver adapter: confuse-afl-wrapper.cpp
    afl,                    \* bool afl
    afl_input_ptr,          \* TRUE when the input region is attached
    input_size,             \* size_t input_size
    \* fuzzing engine and the descriptors 198/199
    env,                    \* which of __AFL_SHM_ID, __AFL_SHM_FUZZ_ID are set
    ctl,                    \* state (nofd, open, closed), go words, out words
    epc,                    \* position of the engine
    afl_in,                 \* length prefix of the engine's input region
    \* data region shared by control process and simulator (confuse_dio)
    shm,                    \* len, first data byte, who wrote it and when
    \* simulator process: confuse-ll.c, confuse-dio.c, afl-branch-tracer.c
    tpc,                    \* position of the child / simulator process
    tsig,                   \* SIGUSR1/2 of the simulator: installed, usr1, usr2
    run_alone,              \* callbacks queued with SIM_run_alone
    ll,                     \* confuse_ll: if_pid, armed (stop hap callback)
    dio,                    \* confuse_dio: skip_write_to_target, haps
    exit_dsc_list,          \* list of exit descriptors, the last one unused
    break_req,              \* SIM_break_simulation was called
    snapshot,               \* micro checkpoint 0: the software under test
    afl_area,               \* coverage map, as the function of its non-zero
                            \*   buckets; mapped: __p_afl_area_ptr points to
                            \*   it; bad: __p_afl_area_ptr is MAP_FAILED
    prev_loc,               \* static __thread prev_loc of afl_maybe_log
    \* software under test (inside the snapshot)
    spc,                    \* position of the software under test
    sret,                   \* position pipe_send_buf returns to
    pipe,                   \* struct pipe_desc: magic, count
    head,                   \* struct pipe_header of the buffer
    data,                   \* the payload bytes of the buffer
    used,                   \* the local "used" of pipe_send_buf
    \* the buffers of a library client (struct pipe_desc, struct buffer_desc)
    bufs,                   \* pipe->bufs: the buffer handles, first one first
    mem,                    \* the memory of each buffer that is allocated
    \* history, read by the properties only
    gh,                     \* of the run control and the adapter
    gp,                     \* of the transport: traps, retry answers, magics
    gl                      \* of the library calls: the last call, its
                            \*   arguments and the state it started in

hostVars == <<hpc, wret, rv, sig_usr2_from_simics, hsig, simics, iter>>
aflVars == <<afl, afl_input_ptr, input_size>>
engVars == <<env, ctl, epc, afl_in>>
simVars == <<tpc, tsig, run_alone, ll, dio, exit_dsc_list, break_req,
            snapshot>>
covVars == <<afl_area, prev_loc>>
swVars == <<spc, sret, pipe, head, data, used, gp>>
libVars == <<bufs, mem, gl>>

vars == <<hostVars, aflVars, engVars, shm, simVars, covVars, swVars, gh,
          libVars>>

(***************************************************************************)
(* Signals.  A standard signal is one pending bit per process; it is       *)
(* delivered when it is not blocked; SIGUSR1/SIGUSR2 without a handler     *)
(* terminate the process.                                                  *)
(***************************************************************************)
HostEnded == {"h_exit", "h_done", "h_crashed", "h_killed"}
WaitPcs == {"w_block", "w_check", "w_suspend", "w_unblock", "w_clear"}
HostAlive == hpc \notin HostEnded /\ hpc # "h_start"

SimAlive == tpc \in {"boot", "boot_script", "boot_ready", "stopped", "running"}

\* a handler that counts the notifications instead of setting the flag
CountingHandler(flag) == flag + 1

\* confuse_ll.c 14-17: the handler of the control process
usr2_sig_handler(flag) == 1

\* a wait loop that does not test the flag
NoWaitLoop(flag) == TRUE

\* confuse_ll.c 39: the test that ends the wait loop
WaitOver(flag) == flag # 0

\* confuse_ll.c 42: the flag after the wait
ClearedFlag(flag) == 0

\* the handler runs in the control process
HandlerRuns ==
    /\ sig_usr2_from_simics' = usr2_sig_handler(sig_usr2_from_simics)
    /\ gh' = [gh EXCEPT !.acks = @ + 1]

\* kill(if_pid, SIGUSR2) in the simulator: the hsig of the control process
\* after it
KillHost(hs) == IF HostAlive THEN [hs EXCEPT !.pending = TRUE] ELSE hs

\* the kernel delivers a pending, unblocked SIGUSR2 to the control process
HostSigDeliver ==
    /\ HostAlive
    /\ hsig.pending
    /\ ~hsig.blocked
    /\ IF hsig.installed
       THEN /\ HandlerRuns
            /\ hsig' = [hsig EXCEPT !.pending = FALSE]
            /\ UNCHANGED hpc
       ELSE /\ hpc' = "h_killed"
            /\ hsig' = [hsig EXCEPT !.pending = FALSE]
            /\ UNCHANGED <<sig_usr2_from_simics, gh>>
    /\ UNCHANGED <<wret, rv, simics, iter, aflVars, engVars, shm, simVars,
                   covVars, swVars>>
    /\ UNCHANGED libVars

(***************************************************************************)
(* confuse_ll.c: wait_for_simics.                                          *)
(***************************************************************************)
\* a wait that tests the flag without blocking the signal first
WaitNoBlock ==
    /\ hpc = "w_block"
    /\ hpc' = "w_check"
    /\ UNCHANGED <<wret, rv, sig_usr2_from_simics, hsig, simics, iter, aflVars,
                   engVars, shm, simVars, covVars, swVars, gh>>
    /\ UNCHANGED libVars

\* 38: sigprocmask(SIG_BLOCK)
WaitBlock ==
    /\ hpc = "w_block"
    /\ hsig' = [hsig EXCEPT !.blocked = TRUE]
    /\ hpc' = "w_check"
    /\ UNCHANGED <<wret, rv, sig_usr2_from_simics, simics, iter, aflVars,
                   engVars, shm, simVars, covVars, swVars, gh>>
    /\ UNCHANGED libVars

\* 39: while (!sig_usr2_from_simics)
WaitCheck ==
    /\ hpc = "w_check"
    /\ hpc' = IF WaitOver(sig_usr2_from_simics) THEN "w_unblock" ELSE "w_suspend"
    /\ UNCHANGED <<wret, rv, sig_usr2_from_simics, hsig, simics, iter, aflVars,
                   engVars, shm, simVars, covVars, swVars, gh>>
    /\ UNCHANGED libVars

\* 40: sigsuspend(&oldmask) returns after the handler has run
WaitSuspend ==
    /\ hpc = "w_suspend"
    /\ hsig.pending
    /\ HandlerRuns
    /\ hsig' = [hsig EXCEPT !.pending = FALSE]
    /\ hpc' = "w_check"
    /\ UNCHANGED <<wret, rv, simics, iter, aflVars, engVars, shm, simVars,
                   covVars, swVars>>
    /\ UNCHANGED libVars

\* 41: sigprocmask(SIG_UNBLOCK); a pending signal is delivered before it returns
WaitUnblock ==
    /\ hpc = "w_unblock"
    /\ IF hsig.pending
       THEN /\ HandlerRuns
            /\ hsig' = [hsig EXCEPT !.pending = FALSE, !.blocked = FALSE]
       ELSE /\ hsig' = [hsig EXCEPT !.blocked = FALSE]
            /\ UNCHANGED <<sig_usr2_from_simics, gh>>
    /\ hpc' = "w_clear"
    /\ UNCHANGED <<wret, rv, simics, iter, aflVars, engVars, shm, simVars,
                   covVars, swVars>>
    /\ UNCHANGED libVars

\* 42: sig_usr2_from_simics = 0, and the return 0 of the caller
WaitClear ==
    /\ hpc = "w_clear"
    /\ sig_usr2_from_simics' = ClearedFlag(sig_usr2_from_simics)
    /\ rv' = 0
    /\ hpc' = CASE wret = "init" -> "h_init_ret"
                [] wret = "reset" -> "h_reset_ret"
                [] OTHER -> "h_run_ret"
    /\ gh' = [gh EXCEPT !.consumed = gh.acks, !.acks = 0]
    /\ UNCHANGED <<wret, hsig, simics, iter, aflVars, engVars, shm, simVars,
                   covVars, swVars>>
    /\ UNCHANGED libVars

(***************************************************************************)
(* confuse_ll.c: confuse_init, confuse_reset, confuse_run.                 *)
(***************************************************************************)
\* fake_harness.cpp 44-50: main up to the call of confuse_init
MainStart ==
    /\ hpc = "h_start"
    /\ hpc' = "h_fork"
    /\ UNCHANGED <<wret, rv, sig_usr2_from_simics, hsig, simics, iter, aflVars,
                   engVars, shm, simVars, covVars, swVars, gh>>
    /\ UNCHANGED libVars

\* confuse_ll.c 73-94: fork
Fork ==
    /\ hpc = "h_fork"
    /\ \/ /\ rv' = -1
          /\ hpc' = "h_init_ret"
          /\ gh' = [gh EXCEPT !.fail = "fork"]
          /\ UNCHANGED <<simics, tpc>>
       \/ /\ simics' = 1
          /\ tpc' = "child"
          /\ hpc' = "h_install"
          /\ UNCHANGED <<rv, gh>>
    /\ UNCHANGED <<wret, sig_usr2_from_simics, hsig, iter, aflVars, engVars, shm,
                   tsig, run_alone, ll, dio, exit_dsc_list, break_req, snapshot,
                   covVars, swVars>>
    /\ UNCHANGED libVars

\* confuse_init without its wait_for_simics
InstallOnly == "w_clear"

\* after init_signal_hanlders succeeded: confuse_init goes on to wait
AfterInstall == "w_block"

\* confuse_ll.c 98-100 and 19-28: init_signal_hanlders, then the wait
InstallHandler ==
    /\ hpc = "h_install"
    /\ \/ /\ rv' = -1
          /\ hpc' = "h_init_ret"
          /\ gh' = [gh EXCEPT !.fail = "install"]
          /\ UNCHANGED <<hsig, wret>>
       \/ /\ hsig' = [hsig EXCEPT !.installed = TRUE]
          /\ wret' = "init"
          /\ hpc' = AfterInstall
          /\ UNCHANGED <<rv, gh>>
    /\ UNCHANGED <<sig_usr2_from_simics, simics, iter, aflVars, engVars, shm,
                   simVars, covVars, swVars>>
    /\ UNCHANGED libVars

\* kill(simics, sig) of the control process: a dead child that was never
\* waited for still takes the signal (result 0), a reaped one gives -1
KillResults == IF tpc = "dead" THEN {0, -1} ELSE {0}

SignalSim(ts, sig) ==
    IF tpc = "dead" THEN ts
    ELSE IF sig = "usr1" THEN [ts EXCEPT !.usr1 = TRUE]
         ELSE [ts EXCEPT !.usr2 = TRUE]

\* confuse_reset / confuse_run without their wait_for_simics
KillOnly == "w_clear"

\* after the kill of confuse_reset / confuse_run succeeded
AfterKill == "w_block"

\* confuse_ll.c 105-112: confuse_reset
ResetKill ==
    /\ hpc = "h_reset_kill"
    /\ \E r \in KillResults :
          IF r # 0
          THEN /\ rv' = -1
               /\ hpc' = "h_reset_ret"
               /\ gh' = [gh EXCEPT !.fail = "kill"]
               /\ UNCHANGED <<wret, tsig>>
          ELSE /\ tsig' = SignalSim(tsig, "usr2")
               /\ wret' = "reset"
               /\ hpc' = AfterKill
               /\ gh' = [gh EXCEPT !.reqSent = "reset"]
               /\ UNCHANGED rv
    /\ UNCHANGED <<sig_usr2_from_simics, hsig, simics, iter, aflVars, engVars,
                   shm, tpc, run_alone, ll, dio, exit_dsc_list, break_req,
                   snapshot, covVars, swVars>>
    /\ UNCHANGED libVars

\* confuse_ll.c 115-123: confuse_run
RunKill ==
    /\ hpc = "h_run_kill"
    /\ \E r \in KillResults :
          IF r # 0
          THEN /\ rv' = -1
               /\ hpc' = "h_run_ret"
               /\ gh' = [gh EXCEPT !.fail = "kill"]
               /\ UNCHANGED <<wret, tsig>>
          ELSE /\ tsig' = SignalSim(tsig, "usr1")
               /\ wret' = "run"
               /\ hpc' = AfterKill
               /\ gh' = [gh EXCEPT !.reqSent = "run", !.ackSent = FALSE]
               /\ UNCHANGED rv
    /\ UNCHANGED <<sig_usr2_from_simics, hsig, simics, iter, aflVars, engVars,
                   shm, tpc, run_alone, ll, dio, exit_dsc_list, break_req,
                   snapshot, covVars, swVars>>
    /\ UNCHANGED libVars

(***************************************************************************)
(* fake_harness.cpp: main, and confuse-afl-wrapper.cpp: the adapter.       *)
(***************************************************************************)
HostRest == <<wret, sig_usr2_from_simics, hsig, simics>>

\* a 4-byte write to descriptor 199: "ok", "fail" when the descriptor is not
\* open, "sigpipe" when the engine has closed its end
Write199(c) ==
    CASE c.state = "open" -> "ok"
      [] c.state = "nofd" -> "fail"
      [] OTHER -> "sigpipe"

\* the words in flight after a write that went through
Written(c, word) == [c EXCEPT !.out = Append(@, word)]

\* fake_harness.cpp 50-54: the result of confuse_init
InitRet ==
    /\ hpc = "h_init_ret"
    /\ hpc' = IF rv # 0 THEN "h_exit" ELSE "h_aflinit"
    /\ gh' = [gh EXCEPT !.fail = "none"]
    /\ UNCHANGED <<HostRest, rv, iter, aflVars, engVars, shm, simVars, covVars,
                   swVars>>
    /\ UNCHANGED libVars

\* confuse-afl-wrapper.cpp 57-97: confuse_aflplusplus_init
AflInit ==
    /\ hpc = "h_aflinit"
    /\ IF ~env.shm
       THEN /\ hpc' = "h_loop"
            /\ UNCHANGED <<afl, afl_input_ptr, ctl>>
       ELSE \E attached \in BOOLEAN :
              IF ~attached
              THEN /\ hpc' = "h_exit"
                   /\ UNCHANGED <<afl, afl_input_ptr, ctl>>
              ELSE LET w == Write199(ctl)
                       word == IF env.fuzz THEN "hello_shdmem" ELSE "hello"
                   IN  /\ afl_input_ptr' = env.fuzz
                       /\ IF w = "sigpipe"
                          THEN hpc' = "h_killed" /\ UNCHANGED <<afl, ctl>>
                          ELSE IF w = "fail"
                          THEN hpc' = "h_loop" /\ UNCHANGED <<afl, ctl>>
                          ELSE /\ hpc' = "h_loop"
                               /\ afl' = TRUE
                               /\ ctl' = Written(ctl, word)
    /\ UNCHANGED <<HostRest, rv, iter, input_size, env, epc, afl_in, shm,
                   simVars, covVars, swVars, gh>>
    /\ UNCHANGED libVars

\* fake_harness.cpp 76: the loop test
Loop ==
    /\ hpc = "h_loop"
    /\ hpc' = IF iter < MaxIter THEN "h_reset_kill" ELSE "h_done"
    /\ gh' = [gh EXCEPT !.goRead = FALSE, !.fetched = "no"]
    /\ UNCHANGED <<HostRest, rv, iter, aflVars, engVars, shm, simVars, covVars,
                   swVars>>
    /\ UNCHANGED libVars

\* fake_harness.cpp 78: the result of confuse_reset is not looked at
ResetRet ==
    /\ hpc = "h_reset_ret"
    /\ hpc' = "h_getinput"
    /\ gh' = [gh EXCEPT !.fail = "none"]
    /\ UNCHANGED <<HostRest, rv, iter, aflVars, engVars, shm, simVars, covVars,
                   swVars>>
    /\ UNCHANGED libVars

\* confuse-afl-wrapper.cpp 130-136: confuse_get_afl_input
GetInput ==
    /\ hpc = "h_getinput"
    /\ IF ~afl_input_ptr
       THEN /\ hpc' = "h_crashed"
            /\ UNCHANGED <<input_size, gh>>
       ELSE /\ input_size' = afl_in.len
            /\ hpc' = "h_aflwait"
            /\ gh' = [gh EXCEPT !.fetched =
                         IF gh.goRead THEN "after_go" ELSE "before_go"]
    /\ UNCHANGED <<HostRest, rv, iter, afl, afl_input_ptr, engVars, shm,
                   simVars, covVars, swVars>>
    /\ UNCHANGED libVars

\* confuse-afl-wrapper.cpp 106-113: the read of confuse_afl_wait
AflWaitRead ==
    /\ hpc = "h_aflwait"
    /\ IF ctl.go > 0
       THEN /\ ctl' = [ctl EXCEPT !.go = @ - 1]
            /\ hpc' = "h_aflwait_write"
            /\ gh' = [gh EXCEPT !.goRead = TRUE, !.goLen = afl_in.len]
            /\ UNCHANGED afl
       ELSE /\ ctl.state # "open"
            /\ afl' = FALSE
            /\ hpc' = "h_memcpy"
            /\ UNCHANGED <<ctl, gh>>
    /\ UNCHANGED <<HostRest, rv, iter, afl_input_ptr, input_size, env, epc,
                   afl_in, shm, simVars, covVars, swVars>>
    /\ UNCHANGED libVars

\* confuse-afl-wrapper.cpp 115-118: the pid word of confuse_afl_wait
AflWaitWrite ==
    /\ hpc = "h_aflwait_write"
    /\ LET w == Write199(ctl)
       IN  IF w = "sigpipe"
           THEN hpc' = "h_killed" /\ UNCHANGED <<afl, ctl>>
           ELSE IF w = "fail"
           THEN hpc' = "h_memcpy" /\ afl' = FALSE /\ UNCHANGED ctl
           ELSE /\ hpc' = "h_memcpy"
                /\ ctl' = Written(ctl, "pid")
                /\ UNCHANGED afl
    /\ UNCHANGED <<HostRest, rv, iter, afl_input_ptr, input_size, env, epc,
                   afl_in, shm, simVars, covVars, swVars, gh>>
    /\ UNCHANGED libVars

\* what memcpy(simics_area_ptr, &afl_area_ptr, input_size) leaves in the data
\* region: input_size bytes taken from the pointer variable onwards, so a
\* length word and a first byte that are not those of the input
HarnessBytes ==
    {<<2, <<65, 0>>>>, <<2, <<72, 0>>>>, <<2, <<120, 0>>>>, <<BigLen, <<>>>>}

\* what memcpy(afl_input_ptr, &simics_area_ptr, input_limit) leaves in the
\* length word of the input region: the low half of a pointer
PtrWords == {3, BigLen}

\* fake_harness.cpp 83-87: the two memcpy before confuse_run
Memcpy ==
    /\ hpc = "h_memcpy"
    /\ \E g \in PtrWords : afl_in' = [len |-> g]
    /\ IF input_size = 0
       THEN UNCHANGED shm
       ELSE \E b \in HarnessBytes :
              shm' = [len |-> b[1], data |-> b[2], src |-> "harness", it |-> iter]
    /\ hpc' = "h_run_kill"
    /\ UNCHANGED <<HostRest, rv, iter, aflVars, env, ctl, epc, simVars, covVars,
                   swVars, gh>>
    /\ UNCHANGED libVars

\* fake_harness.cpp 88-93: the result of confuse_run is not looked at
RunRet ==
    /\ hpc = "h_run_ret"
    /\ hpc' = "h_report"
    /\ gh' = [gh EXCEPT !.fail = "none"]
    /\ UNCHANGED <<HostRest, rv, iter, aflVars, engVars, shm, simVars, covVars,
                   swVars>>
    /\ UNCHANGED libVars

\* confuse-afl-wrapper.cpp 122-127: confuse_afl_report(false), and ++i
Report ==
    /\ hpc = "h_report"
    /\ LET w == Write199(ctl)
       IN  IF w = "sigpipe"
           THEN hpc' = "h_killed" /\ UNCHANGED <<afl, ctl, iter>>
           ELSE /\ hpc' = "h_loop"
                /\ iter' = iter + 1
                /\ IF w = "fail"
                   THEN afl' = FALSE /\ UNCHANGED ctl
                   ELSE ctl' = Written(ctl, "status0") /\ UNCHANGED afl
    /\ UNCHANGED <<HostRest, rv, afl_input_ptr, input_size, env, epc, afl_in,
                   shm, simVars, covVars, swVars, gh>>
    /\ UNCHANGED libVars

(***************************************************************************)
(* The fuzzing engine at the other end of descriptors 198/199.             *)
(***************************************************************************)
InputLens == {1, 2}

EngRest == <<hostVars, aflVars, env, shm, simVars, covVars, swVars, gh>>

\* takes the next word the adapter wrote
EngineRead ==
    /\ ctl.state = "open"
    /\ epc \in {"e_hello", "e_pid", "e_status"}
    /\ ctl.out # <<>>
    /\ ctl' = [ctl EXCEPT !.out = Tail(@)]
    /\ epc' = CASE epc = "e_hello" -> "e_deliver"
                [] epc = "e_pid" -> "e_status"
                [] OTHER -> "e_deliver"
    /\ UNCHANGED <<afl_in, EngRest>>
    /\ UNCHANGED libVars

\* writes the next input and its length, then the go word
EngineDeliver ==
    /\ ctl.state = "open"
    /\ epc = "e_deliver"
    /\ \E l \in InputLens : afl_in' = [len |-> l]
    /\ ctl' = [ctl EXCEPT !.go = @ + 1]
    /\ epc' = "e_pid"
    /\ UNCHANGED EngRest
    /\ UNCHANGED libVars

\* the engine goes away and closes its ends
EngineClose ==
    /\ ctl.state = "open"
    /\ ctl' = [ctl EXCEPT !.state = "closed"]
    /\ epc' = "e_gone"
    /\ UNCHANGED <<afl_in, EngRest>>
    /\ UNCHANGED libVars

(***************************************************************************)
(* The child process: confuse_ll.c 75-87, then the simulator with the      *)
(* modules confuse_ll and confuse_dio.                                      *)
(***************************************************************************)
SimRest == <<hostVars, aflVars, engVars, covVars, swVars>>

\* confuse_ll.c 75-100 in the child: chdir fails (exit), execlp succeeds (the
\* simulator boots), or execlp fails: the break leaves the switch, the child
\* installs the handler and waits in wait_for_simics as its parent does
ChildExec ==
    /\ tpc = "child"
    /\ \/ tpc' = "dead" /\ UNCHANGED gh
       \/ tpc' = "boot" /\ UNCHANGED gh
       \/ tpc' = "child_wait" /\ gh' = [gh EXCEPT !.fail = "exec"]
    /\ UNCHANGED <<SimRest, shm, tsig, run_alone, ll, dio, exit_dsc_list,
                   break_req, snapshot>>
    /\ UNCHANGED libVars

\* the simulator goes away: killed, crashed, or quit
TargetDies ==
    /\ SimAlive
    /\ tpc' = "dead"
    /\ UNCHANGED <<SimRest, shm, tsig, run_alone, ll, dio, exit_dsc_list,
                   break_req, snapshot, gh>>
    /\ UNCHANGED libVars

\* the C string of a message, without its terminating 0
MsgOK == <<79, 75>>
MsgFail == <<70, 97, 105, 108>>
MsgUD == <<65, 112, 112, 108, 105, 99, 97, 116, 105, 111, 110, 32, 99, 114, 97, 115, 104, 32, 40, 85, 68, 41>>
strlen(str) == Len(str)

\* breakpoint on the invalid-opcode handler of the target
BpUD == 1

\* confuse-dio.c 189-201: dio_init_object
dio_init_object == <<[bp |-> 0, msg |-> <<>>]>>

\* confuse-dio.c 342-359: add_abnormal_exit
add_abnormal_exit(list, bp, message) ==
    IF \E i \in 1..(Len(list) - 1) : list[i].bp = bp
    THEN list
    ELSE SubSeq(list, 1, Len(list) - 1)
            \o <<[bp |-> bp, msg |-> message], [bp |-> 0, msg |-> <<>>]>>

\* confuse-ll.c 117-133 and confuse-dio.c 189-201: the objects are created
SimInit ==
    /\ tpc = "boot"
    /\ tsig' = [tsig EXCEPT !.installed = TRUE]
    /\ dio' = [skip_write_to_target |-> 0, haps |-> 0]
    /\ exit_dsc_list' = dio_init_object
    /\ tpc' = "boot_script"
    /\ UNCHANGED <<SimRest, shm, run_alone, ll, break_req, snapshot, gh>>
    /\ UNCHANGED libVars

BufSize == 67108864

\* Hello.c 84-100: the software under test from its start to MAGIC(42)
HelloAtSnapshot(raw) ==
    [spc |-> "s_start", sret |-> "s_start", pipe |-> pipe_open(PIPE_MAGIC),
     head |-> pipe_alloc_buf(BufSize, raw),
     data |-> [i \in 1..pipe_header_get_used(raw) |-> 170],
     used |-> 0,
     gp |-> [traps |-> 0, retryAns |-> 0, usedAtCall |-> 0, sends |-> 0,
             adds |-> 0, openMagic |-> PIPE_MAGIC, expectMagic |-> PIPE_MAGIC]]

\* confuse-ll.c 91-106: arm_usr2_on_stop
arm_usr2_on_stop(l, pid) == [if_pid |-> pid, armed |-> pid # 0]

\* the start-up script of the simulator: maps the data region and the
\* coverage map, registers the exit descriptors, runs the target up to
\* MAGIC(42), takes micro checkpoint 0 there and arms the stop notification
Script ==
    /\ tpc = "boot_script"
    /\ exit_dsc_list' = add_abnormal_exit(exit_dsc_list, BpUD, MsgUD)
    /\ afl_area' = [afl_area EXCEPT !.mapped = TRUE]
    /\ \E raw \in pipemem_alloc : snapshot' = HelloAtSnapshot(raw)
    /\ spc' = snapshot'.spc
    /\ sret' = snapshot'.sret
    /\ pipe' = snapshot'.pipe
    /\ head' = snapshot'.head
    /\ data' = snapshot'.data
    /\ used' = snapshot'.used
    /\ gp' = snapshot'.gp
    /\ ll' = arm_usr2_on_stop(ll, 1)
    /\ tpc' = "boot_ready"
    /\ UNCHANGED <<hostVars, aflVars, engVars, shm, tsig, run_alone, dio,
                   break_req, prev_loc, gh>>
    /\ UNCHANGED libVars

\* confuse-ll.c 67-78: trigger_usr2, set by the script when the target is ready
trigger_usr2 ==
    /\ tpc = "boot_ready"
    /\ ll' = [ll EXCEPT !.if_pid = 1]
    /\ hsig' = KillHost(hsig)
    /\ gh' = [gh EXCEPT !.readySent = TRUE, !.ackOf = "init"]
    /\ tpc' = "stopped"
    /\ UNCHANGED <<hpc, wret, rv, sig_usr2_from_simics, simics, iter, aflVars,
                   engVars, shm, tsig, run_alone, dio, exit_dsc_list, break_req,
                   snapshot, covVars, swVars>>
    /\ UNCHANGED libVars

\* confuse-ll.c 53-55 and 62-64: usr1_sig_handler / usr2_sig_handler run when
\* the kernel delivers the signal; without handler the signal ends the process
TargetSig ==
    /\ SimAlive
    /\ \E sig \in {"usr1", "usr2"} :
          /\ tsig[sig]
          /\ tsig' = [tsig EXCEPT ![sig] = FALSE]
          /\ IF tsig.installed
             THEN /\ run_alone' = Append(run_alone,
                         IF sig = "usr1" THEN "SIM_continue"
                                         ELSE "restore_and_clear")
                  /\ UNCHANGED tpc
             ELSE /\ tpc' = "dead"
                  /\ UNCHANGED run_alone
    /\ UNCHANGED <<SimRest, shm, ll, dio, exit_dsc_list, break_req, snapshot,
                   gh>>
    /\ UNCHANGED libVars

\* the acknowledgement of a reset: sent by the target once the restore is done
ResetAcknowledge(hs) == KillHost(hs)

\* the simulator runs the next callback queued with SIM_run_alone:
\* SIM_continue, or restore_and_clear (confuse-ll.c 57-60)
RunAlone ==
    /\ tpc \in {"stopped", "running"}
    /\ run_alone # <<>>
    /\ run_alone' = Tail(run_alone)
    /\ IF Head(run_alone) = "SIM_continue"
       THEN /\ tpc' = "running"
            /\ UNCHANGED <<hsig, swVars, gh>>
       ELSE /\ spc' = snapshot.spc
            /\ sret' = snapshot.sret
            /\ pipe' = snapshot.pipe
            /\ head' = snapshot.head
            /\ data' = snapshot.data
            /\ used' = snapshot.used
            /\ gp' = snapshot.gp
            /\ hsig' = ResetAcknowledge(hsig)
            /\ gh' = [gh EXCEPT !.ackOf = "reset"]
            /\ UNCHANGED tpc
    /\ UNCHANGED <<hpc, wret, rv, sig_usr2_from_simics, simics, iter, aflVars,
                   engVars, shm, tsig, ll, dio, exit_dsc_list, break_req,
                   snapshot, covVars>>
    /\ UNCHANGED libVars

\* confuse-ll.c 81-89: stop_callback
stop_callback(hs) == KillHost(hs)

\* SIM_break_simulation takes effect: the simulation stops and the
\* Core_Simulation_Stopped hap runs stop_callback when it is armed
SimStop ==
    /\ tpc = "running"
    /\ break_req
    /\ tpc' = "stopped"
    /\ break_req' = FALSE
    /\ IF ll.armed
       THEN /\ hsig' = stop_callback(hsig)
            /\ gh' = [gh EXCEPT !.ackSent = TRUE, !.ackOf = "run"]
       ELSE UNCHANGED <<hsig, gh>>
    /\ UNCHANGED <<hpc, wret, rv, sig_usr2_from_simics, simics, iter, aflVars,
                   engVars, shm, tsig, run_alone, ll, dio, exit_dsc_list,
                   snapshot, covVars, swVars>>
    /\ UNCHANGED libVars

(***************************************************************************)
(* confuse-dio.c: the callbacks of the data I/O module.                    *)
(***************************************************************************)
\* a reader that stops the simulation without copying the payload
ReaderKeepsRegion(d, s, h, dat, it) ==
    [dio |-> [d EXCEPT !.haps = @ + 1,
                       !.skip_write_to_target =
                           IF pipe_header_get_used(h) > 0 THEN 1 ELSE @],
     shm |-> s, brk |-> pipe_header_get_used(h) > 0]

\* confuse-dio.c 123-140: pipe_agent_reader; it is the loop count of the
\* control process at the time of the write, kept for the properties
pipe_agent_reader(d, s, h, dat, it) ==
    LET len == pipe_header_get_used(h)
    IN  IF len > 0
        THEN [dio |-> [d EXCEPT !.haps = @ + 1, !.skip_write_to_target = 1],
              shm |-> [len |-> len, data |-> SubSeq(dat, 1, len),
                       src |-> "result", it |-> it],
              brk |-> TRUE]
        ELSE [dio |-> [d EXCEPT !.haps = @ + 1], shm |-> s, brk |-> FALSE]

\* a writer that leaves skip_write_to_target set when it skips
WriterKeepsFlag(d, s, h, dat) ==
    IF d.skip_write_to_target # 0
    THEN [dio |-> d, head |-> h, data |-> dat]
    ELSE IF s.len > 0 /\ ~(pipe_buf_left(h) < s.len)
    THEN [dio |-> d,
          head |-> pipe_header_set_used(h, pipe_header_get_used(h) + s.len),
          data |-> SubSeq(dat, 1, pipe_header_get_used(h))
                      \o SubSeq(s.data, 1, s.len)]
    ELSE [dio |-> d, head |-> h, data |-> dat]

\* confuse-dio.c 95-118: pipe_agent_writer
pipe_agent_writer(d, s, h, dat) ==
    IF d.skip_write_to_target # 0
    THEN [dio |-> [d EXCEPT !.skip_write_to_target = 0], head |-> h,
          data |-> dat]
    ELSE IF s.len > 0 /\ ~(pipe_buf_left(h) < s.len)
    THEN [dio |-> d,
          head |-> pipe_header_set_used(h, pipe_header_get_used(h) + s.len),
          data |-> SubSeq(dat, 1, pipe_header_get_used(h))
                      \o SubSeq(s.data, 1, s.len)]
    ELSE [dio |-> d, head |-> h, data |-> dat]

\* confuse-dio.c 302-314: bp_handler
bp_handler(desc, it) ==
    [len |-> strlen(desc.msg) + 1, data |-> desc.msg \o <<0>>, src |-> "exit",
     it |-> it]

(***************************************************************************)
(* The software under test: pipe_send_buf step by step, and Hello.c.       *)
(***************************************************************************)
SendPcs == {"send_prep", "trap", "check"}

\* the target executes instructions only while the simulation runs
SwRuns == tpc = "running" /\ ~break_req

OutsideSw == <<hostVars, aflVars, engVars, shm, simVars, covVars, gh>>

\* a send that never retransmits
NeverRetry(h) == FALSE

\* the while condition of pipe_send_buf
RetryNeeded(h) == pipe_header_get_retry(h)

\* magic-pipe.c 237-245: used, assert, set_magic, set_csum, count++
SendPrep ==
    /\ SwRuns
    /\ spc = "send_prep"
    /\ IF pipe_header_get_used(head) + SIZEOF_PIPE_HEADER
            <= pipe_header_get_size(head)
       THEN LET r == SendPrepare(pipe, head)
            IN  /\ pipe' = r.pipe
                /\ head' = r.head
                /\ used' = r.used
                /\ spc' = "trap"
                /\ gp' = [gp EXCEPT !.traps = 0, !.retryAns = 0,
                                    !.usedAtCall = pipe_header_get_used(head)]
                /\ UNCHANGED <<sret, data>>
       ELSE /\ spc' = "abort"
            /\ UNCHANGED <<sret, pipe, head, data, used, gp>>
    /\ UNCHANGED OutsideSw
    /\ UNCHANGED libVars

\* magic-pipe.c 247-258: the loop test, the loop body, the end of the call
SendCheck ==
    /\ SwRuns
    /\ spc = "check"
    /\ IF RetryNeeded(head)
       THEN LET r == SendRetry(pipe, head, used)
            IN  /\ pipe' = r.pipe
                /\ head' = r.head
                /\ spc' = "trap"
                /\ UNCHANGED <<sret, data, used, gp>>
       ELSE /\ pipe' = SendFinish(pipe, head)
            /\ spc' = sret
            /\ gp' = [gp EXCEPT !.sends = @ + 1,
                                !.expectMagic = pipe_header_get_magic(head)]
            /\ UNCHANGED <<sret, head, data, used>>
    /\ UNCHANGED OutsideSw
    /\ UNCHANGED libVars

\* Hello.c 103-104: pipe_clear_buf, and the call of pipe_send_buf
HelloStart ==
    /\ SwRuns
    /\ spc = "s_start"
    /\ head' = pipe_clear_buf(head)
    /\ data' = <<>>
    /\ spc' = "send_prep"
    /\ sret' = "s_getmsg"
    /\ UNCHANGED <<pipe, used, gp, OutsideSw>>
    /\ UNCHANGED libVars

\* what *command reads when get_msg_from_pipe left command NULL: some byte,
\* or a fault (-1)
NullBytes == {65, 72, 120, -1}

\* Hello.c 106-131: the command byte decides: 'H' runs into the invalid
\* opcode, 'A' answers "Fail", anything else "OK"
HelloCommand ==
    /\ SwRuns
    /\ spc = "s_getmsg"
    /\ \E c \in IF pipe_buf_used(head) = 0 THEN NullBytes ELSE {data[1]} :
          IF c = -1
          THEN spc' = "s_fault" /\ UNCHANGED <<sret, head, data>>
          ELSE IF c = 72
          THEN spc' = "s_ud" /\ UNCHANGED <<sret, head, data>>
          ELSE LET msg == IF c = 65 THEN MsgFail ELSE MsgOK
               IN  /\ head' = pipe_add_used(pipe_clear_buf(head),
                                            strlen(msg) + 1, 0)
                   /\ data' = msg \o <<0>>
                   /\ spc' = "send_prep"
                   /\ sret' = "s_exit"
    /\ UNCHANGED <<pipe, used, gp, OutsideSw>>
    /\ UNCHANGED libVars

\* the magic instruction of a trap is executed: the magic pipe module of the
\* simulator finds the buffer, calls the reader and then the writer
\* registered for its magic, and hands the buffer back with the retry bit
\* clear and a fresh checksum
MagicHap ==
    /\ SwRuns
    /\ spc = "trap"
    /\ IF pipe_header_get_magic(head) = PIPE_MAGIC /\ pipe_header_csum_ok(head)
       THEN LET r == pipe_agent_reader(dio, shm, head, data, iter)
                w == pipe_agent_writer(r.dio, shm, head, data)
            IN  /\ dio' = w.dio
                /\ shm' = r.shm
                /\ break_req' = (break_req \/ r.brk)
                /\ head' = pipe_header_set_csum(
                               pipe_header_set_retry(w.head, FALSE))
                /\ data' = w.data
       ELSE UNCHANGED <<dio, shm, break_req, head, data>>
    /\ spc' = "check"
    /\ gp' = [gp EXCEPT !.traps = @ + 1]
    /\ UNCHANGED <<hostVars, aflVars, engVars, tpc, tsig, run_alone, ll,
                   exit_dsc_list, snapshot, covVars, sret, pipe, used, gh>>
    /\ UNCHANGED libVars

\* the invalid opcode is executed: the breakpoint of an exit descriptor fires
\* and runs bp_handler
BpHit ==
    /\ SwRuns
    /\ spc = "s_ud"
    /\ spc' = "s_halt"
    /\ IF \E i \in 1..(Len(exit_dsc_list) - 1) : exit_dsc_list[i].bp = BpUD
       THEN LET i == CHOOSE j \in 1..(Len(exit_dsc_list) - 1) :
                         exit_dsc_list[j].bp = BpUD
            IN  /\ shm' = bp_handler(exit_dsc_list[i], iter)
                /\ break_req' = TRUE
       ELSE UNCHANGED <<shm, break_req>>
    /\ UNCHANGED <<hostVars, aflVars, engVars, tpc, tsig, run_alone, ll, dio,
                   exit_dsc_list, snapshot, covVars, sret, pipe, head, data,
                   used, gp, gh>>
    /\ UNCHANGED libVars

(***************************************************************************)
(* afl-branch-tracer.c: the coverage map.                                  *)
(***************************************************************************)
MAP_SIZE_POW2 == 16
MAP_SIZE == Pow2(MAP_SIZE_POW2)

RECURSIVE BitXor(_, _)
BitXor(a, b) ==
    IF a = 0 THEN b
    ELSE IF b = 0 THEN a
    ELSE ((a + b) % 2) + 2 * BitXor(a \div 2, b \div 2)

\* a location that is not masked to the size of the map
MapLocNoMask(cur_loc) == BitXor(cur_loc \div 16, cur_loc * 256)

\* afl-branch-tracer.c 99-100: the location of a program counter
MapLoc(cur_loc) == BitXor(cur_loc \div 16, cur_loc * 256) % MAP_SIZE

\* afl-branch-tracer.c 102: the bucket that is incremented, an unsigned char
MapBump(m, idx) ==
    IF idx \in DOMAIN m THEN [m EXCEPT ![idx] = (@ + 1) % 256]
    ELSE m @@ (idx :> 1)

\* a record that keeps the location itself as the previous location
LogNoShift(area, prev, cur_loc) ==
    IF ~area.mapped
    THEN [area |-> area, prev |-> prev]
    ELSE [area |-> [area EXCEPT !.map = MapBump(@, BitXor(MapLoc(cur_loc), prev))],
          prev |-> MapLoc(cur_loc)]

\* afl-branch-tracer.c 96: __p_afl_area_ptr is not NULL
PtrSet(area) == area.mapped \/ area.bad

\* afl-branch-tracer.c 90-104: afl_maybe_log; with the pointer MAP_FAILED the
\* increment goes to memory that is not the map
afl_maybe_log(area, prev, cur_loc) ==
    IF ~PtrSet(area)
    THEN [area |-> area, prev |-> prev]
    ELSE IF area.bad
    THEN [area |-> area, prev |-> MapLoc(cur_loc) \div 2]
    ELSE [area |-> [area EXCEPT !.map = MapBump(@, BitXor(MapLoc(cur_loc), prev))],
          prev |-> MapLoc(cur_loc) \div 2]

\* the callback of an instrumented instruction at pc: afl_maybe_log; the
\* write through MAP_FAILED is undefined: the simulator takes SIGSEGV, or
\* the write lands in memory of the process
TracerRecord(pc) ==
    LET r == afl_maybe_log(afl_area, prev_loc, pc)
    IN  \/ /\ afl_area' = r.area
           /\ prev_loc' = r.prev
           /\ UNCHANGED tpc
        \/ /\ afl_area.bad
           /\ tpc' = "dead"
           /\ UNCHANGED <<afl_area, prev_loc>>

\* program counters of the instrumented instructions
Pcs == {16, 48}

\* an instrumented instruction is executed
Record ==
    /\ SwRuns
    /\ gh.recs < MaxRec
    /\ \E pc \in Pcs :
          LET r == afl_maybe_log(afl_area, prev_loc, pc)
          IN  /\ afl_area' = r.area
              /\ prev_loc' = r.prev
    /\ gh' = [gh EXCEPT !.recs = @ + 1]
    /\ UNCHANGED <<hostVars, aflVars, engVars, shm, simVars, swVars>>
    /\ UNCHANGED libVars

(***************************************************************************)
(* The system: control process, engine, simulator, software under test.    *)
(***************************************************************************)
\* the environments main can be started in: by hand, under the engine with
\* or without a shared input region, with the variables but without the
\* descriptors
Envs ==
    {[shm |-> FALSE, fuzz |-> FALSE, fd |-> "nofd"],
     [shm |-> TRUE, fuzz |-> FALSE, fd |-> "open"],
     [shm |-> TRUE, fuzz |-> TRUE, fd |-> "open"],
     [shm |-> TRUE, fuzz |-> TRUE, fd |-> "nofd"]}

ZeroHead == CHOOSE raw \in pipemem_alloc : raw.retry = 0

GhInit ==
    [acks |-> 0, consumed |-> 0, reqSent |-> "none", ackSent |-> FALSE,
     ackOf |-> "none", recs |-> 0, fail |-> "none", readySent |-> FALSE,
     goRead |-> FALSE, fetched |-> "no", goLen |-> 0, notes |-> 0]

\* no library call yet
GlInit ==
    [op |-> "none", rc |-> 0, arg |-> <<>>, pre |-> <<>>, n |-> 0,
     ids |-> 0, adds |-> 0, grows |-> 0, sends |-> 0, sent |-> {},
     trace |-> <<>>]

\* the state outside the software under test, for environment e and the
\* child process at position t
Outside(e, t) ==
    /\ hpc = "h_start"
    /\ wret = "init"
    /\ rv = 0
    /\ sig_usr2_from_simics = 0
    /\ hsig = [installed |-> FALSE, blocked |-> FALSE, pending |-> FALSE]
    /\ simics = 0
    /\ iter = 0
    /\ afl = FALSE
    /\ afl_input_ptr = FALSE
    /\ input_size = 0
    /\ env = e
    /\ ctl = [state |-> e.fd, go |-> 0, out |-> <<>>]
    /\ epc = IF e.fd = "open" THEN "e_hello" ELSE "e_gone"
    /\ afl_in = [len |-> 0]
    /\ shm = [len |-> 0, data |-> <<>>, src |-> "init", it |-> 0]
    /\ tpc = t
    /\ tsig = [installed |-> FALSE, usr1 |-> FALSE, usr2 |-> FALSE]
    /\ run_alone = <<>>
    /\ ll = [if_pid |-> 0, armed |-> FALSE]
    /\ dio = [skip_write_to_target |-> 0, haps |-> 0]
    /\ exit_dsc_list = <<>>
    /\ break_req = FALSE
    /\ snapshot = HelloAtSnapshot(ZeroHead)
    /\ afl_area = [mapped |-> FALSE, map |-> <<>>, bad |-> FALSE]
    /\ prev_loc = 0
    /\ gh = GhInit
    /\ bufs = <<>>
    /\ mem = <<>>
    /\ gl = GlInit

Init ==
    /\ \E e \in Envs : Outside(e, "none")
    /\ spc = "s_off"
    /\ sret = "s_off"
    /\ pipe = pipe_open(PIPE_MAGIC)
    /\ head = ZeroHead
    /\ data = <<>>
    /\ used = 0
    /\ gp = HelloAtSnapshot(ZeroHead).gp

HostNext ==
    \/ MainStart \/ Fork \/ InstallHandler \/ HostSigDeliver
    \/ WaitBlock \/ WaitCheck \/ WaitSuspend \/ WaitUnblock \/ WaitClear
    \/ InitRet \/ AflInit \/ Loop \/ ResetKill \/ ResetRet \/ GetInput
    \/ AflWaitRead \/ AflWaitWrite \/ Memcpy \/ RunKill \/ RunRet \/ Report
    \/ EngineRead \/ EngineDeliver \/ EngineClose

Next ==
    \/ HostNext
    \/ ChildExec \/ TargetDies \/ SimInit \/ Script \/ trigger_usr2
    \/ TargetSig \/ RunAlone \/ SimStop
    \/ HelloStart \/ SendPrep \/ MagicHap \/ SendCheck \/ HelloCommand
    \/ BpHit \/ Record

Spec == Init /\ [][Next]_vars

(***************************************************************************)
(* SpecChan: the control process against a simulator that notifies it at   *)
(* any time (the attribute trigger_usr2 can be written at any time, the    *)
(* simulation can stop at any time).                                       *)
(***************************************************************************)
\* confuse-ll.c 67-89: kill(if_pid, SIGUSR2)
Notify ==
    /\ simics = 1
    /\ HostAlive
    /\ gh.notes < MaxNotify
    /\ hsig' = KillHost(hsig)
    /\ gh' = [gh EXCEPT !.notes = @ + 1]
    /\ UNCHANGED <<hpc, wret, rv, sig_usr2_from_simics, simics, iter, aflVars,
                   engVars, shm, simVars, covVars, swVars>>
    /\ UNCHANGED libVars

ChanNext == HostNext \/ Notify

SpecChan == Init /\ [][ChanNext]_vars

\* the control process is a running process: each statement of
\* wait_for_simics is executed eventually (sigsuspend returns once a signal
\* is pending), and the kernel delivers a pending signal that is not blocked
WaitSteps == WaitBlock \/ WaitCheck \/ WaitSuspend \/ WaitUnblock \/ WaitClear

SpecChanLive ==
    SpecChan /\ WF_vars(WaitSteps) /\ WF_vars(HostSigDeliver)

(***************************************************************************)
(* SpecPipe: a client of the library against an arbitrary receiver.        *)
(***************************************************************************)
Magics == {PIPE_MAGIC, <<255, 254, 3, 0, 0, 0, 0, 128>>}
AnsUsed == {0, 3}
AddLens == {1, 3}
AddAligns == {0, 2}
ClientBufSize == 100

Bytes(n, b) == [i \in 1..n |-> b]

\* the payload after pipe_add_used: padding up to the alignment, then len bytes
AddPayload(d, h, len, align_bits) ==
    LET a == calc_aligned(pipe_header_get_used(h), align_bits)
    IN  SubSeq(d, 1, pipe_header_get_used(h))
            \o Bytes(a - pipe_header_get_used(h), 0) \o Bytes(len, 1)

GpInit(magic) ==
    [traps |-> 0, retryAns |-> 0, usedAtCall |-> 0, sends |-> 0, adds |-> 0,
     openMagic |-> magic, expectMagic |-> magic]

\* pipe_open and pipe_alloc_buf have returned
PipeInit ==
    /\ Outside(CHOOSE e \in Envs : ~e.shm, "running")
    /\ spc = "c_idle"
    /\ sret = "c_idle"
    /\ \E m \in Magics :
          /\ pipe = pipe_open(m)
          /\ gp = GpInit(m)
    /\ \E raw \in pipemem_alloc :
          /\ head = pipe_alloc_buf(ClientBufSize, raw)
          /\ data = Bytes(pipe_header_get_used(raw), 170)
    /\ used = 0

\* magic-pipe.c 207-216: pipe_add_used, after the client wrote len bytes
ClientAdd ==
    /\ spc = "c_idle"
    /\ gp.adds < MaxAdds
    /\ \E len \in AddLens, align_bits \in AddAligns :
          IF AddUsedFits(head, len, align_bits)
          THEN /\ head' = pipe_add_used(head, len, align_bits)
               /\ data' = AddPayload(data, head, len, align_bits)
               /\ gp' = [gp EXCEPT !.adds = @ + 1]
               /\ UNCHANGED <<spc, sret, pipe, used>>
          ELSE /\ spc' = "abort"
               /\ UNCHANGED <<sret, pipe, head, data, used, gp>>
    /\ UNCHANGED OutsideSw
    /\ UNCHANGED libVars

\* magic-pipe.c 184-193: pipe_clear_buf
ClientClear ==
    /\ spc = "c_idle"
    /\ pipe_buf_used(head) # 0
    /\ head' = pipe_clear_buf(head)
    /\ data' = <<>>
    /\ UNCHANGED <<spc, sret, pipe, used, gp, OutsideSw>>
    /\ UNCHANGED libVars

\* the client calls pipe_send_buf
ClientSend ==
    /\ spc = "c_idle"
    /\ gp.sends < MaxSends
    /\ spc' = "send_prep"
    /\ sret' = "c_idle"
    /\ UNCHANGED <<pipe, head, data, used, gp, OutsideSw>>
    /\ UNCHANGED libVars

\* trigger_magic: the receiver rewrites the header and the payload as it likes
TrapAnswer ==
    /\ spc = "trap"
    /\ \E m \in Magics, u \in AnsUsed, r \in {0, 1}, okcsum \in BOOLEAN :
          /\ r = 1 => gp.retryAns < MaxRetry
          /\ LET h == [head EXCEPT !.magic = m, !.used = u, !.retry = r]
             IN  head' = IF okcsum THEN pipe_header_set_csum(h) ELSE h
          /\ data' = Bytes(u, 7)
          /\ gp' = [gp EXCEPT !.traps = @ + 1, !.retryAns = @ + r]
    /\ spc' = "check"
    /\ UNCHANGED <<sret, pipe, used, OutsideSw>>
    /\ UNCHANGED libVars

PipeNext ==
    \/ ClientAdd
    \/ ClientClear
    \/ ClientSend
    \/ SendPrep
    \/ TrapAnswer
    \/ SendCheck

SpecPipe == PipeInit /\ [][PipeNext]_vars

(***************************************************************************)
(* SpecHdr: the accessors of pipe-header.c applied to a header in memory,  *)
(* and a single bit of the header changing after pipe_header_set_csum.     *)
(***************************************************************************)
\* accessor calls of one run
MaxHdrOps == 3

\* page counts of the sizes given to pipe_header_set_size
HdrPages == {1, 2, 256, 257, 65535, 65536}
HdrSizes == {k * PageSize : k \in HdrPages}
\* values given to pipe_header_set_used: the last one needs 29 bits
HdrUsed == {0, 100, Pow2(UsedBits) - 1, Pow2(UsedBits) + 100}

\* the library call op with argument arg starts in the state pre
Called(op, arg, pre) ==
    [gl EXCEPT !.op = op, !.arg = arg, !.pre = pre, !.n = @ + 1]

HdrRest ==
    <<hostVars, aflVars, engVars, shm, simVars, covVars, spc, sret, pipe,
      data, used, gp, gh, bufs, mem>>

\* a header in memory that was not cleared
HdrInit ==
    /\ Outside(CHOOSE e \in Envs : ~e.shm, "running")
    /\ spc = "c_idle"
    /\ sret = "c_idle"
    /\ pipe = pipe_open(PIPE_MAGIC)
    /\ gp = GpInit(PIPE_MAGIC)
    /\ head \in pipemem_alloc
    /\ data = <<>>
    /\ used = 0

HdrCall == gl.op # "flip" /\ gl.n < MaxHdrOps

HdrSetMagic ==
    /\ HdrCall
    /\ \E m \in Magics :
          /\ head' = pipe_header_set_magic(head, m)
          /\ gl' = Called("set_magic", 0, head)
    /\ UNCHANGED HdrRest

HdrSetSize ==
    /\ HdrCall
    /\ \E size \in HdrSizes :
          /\ head' = pipe_header_set_size(head, size)
          /\ gl' = Called("set_size", size, head)
    /\ UNCHANGED HdrRest

HdrSetUsed ==
    /\ HdrCall
    /\ \E u \in HdrUsed :
          /\ head' = pipe_header_set_used(head, u)
          /\ gl' = Called("set_used", u, head)
    /\ UNCHANGED HdrRest

HdrSetRetry ==
    /\ HdrCall
    /\ \E r \in BOOLEAN :
          /\ head' = pipe_header_set_retry(head, r)
          /\ gl' = Called("set_retry", IF r THEN 1 ELSE 0, head)
    /\ UNCHANGED HdrRest

HdrSetCsum ==
    /\ HdrCall
    /\ head' = pipe_header_set_csum(head)
    /\ gl' = Called("set_csum", 0, head)
    /\ UNCHANGED HdrRest

\* bit k of byte i of the header
FlipBit(b, i, k) ==
    [b EXCEPT ![i] = IF (@ \div Pow2(k)) % 2 = 1 THEN @ - Pow2(k)
                                                 ELSE @ + Pow2(k)]

\* one bit of the header changes after pipe_header_set_csum
HdrFlip ==
    /\ gl.op = "set_csum"
    /\ \E i \in 1..SIZEOF_PIPE_HEADER, k \in 0..7 :
          /\ head' = HeaderOf(FlipBit(HeaderBytes(head, head.csum), i, k))
          /\ gl' = [gl EXCEPT !.op = "flip", !.arg = 8 * (i - 1) + k,
                              !.pre = head]
    /\ UNCHANGED HdrRest

HdrNext ==
    \/ HdrSetMagic
    \/ HdrSetSize
    \/ HdrSetUsed
    \/ HdrSetRetry
    \/ HdrSetCsum
    \/ HdrFlip

SpecHdr == HdrInit /\ [][HdrNext]_vars

(***************************************************************************)
(* SpecBuf: a client of the library that allocates, fills, clears, grows,  *)
(* sends and frees the buffers of one handle.                              *)
(***************************************************************************)
\* buffers pipe_alloc_buf hands out in one run
MaxBufs == 3
\* pipe_grow_buf calls of one run
MaxGrows == 1
\* pipe_send_buf calls of the client of SpecBuf
MaxBufSends == 1
\* library calls of the client of SpecBuf
MaxBufOps == 4

\* sizes given to pipe_alloc_buf: the last two are the largest that is
\* accepted and the smallest that is not
AllocSizes ==
    {ClientBufSize, 5000, MaxMapSize - SIZEOF_PIPE_HEADER,
     MaxMapSize - SIZEOF_PIPE_HEADER + 1}
\* lengths given to pipe_add_used: the last one is (size_t)-16
BufAddLens == {1, 4090, 0 - SIZEOF_PIPE_HEADER}
\* lengths given to pipe_grow_buf
GrowLens == {1, MaxMapSize - PageSize}

BufRest ==
    <<hostVars, aflVars, engVars, shm, simVars, covVars, sret, head, data,
      used, gp, gh>>

\* the library call op with arguments arg returns rc
LibCall(op, arg, rc) ==
    [gl EXCEPT !.op = op, !.arg = arg, !.rc = rc, !.n = @ + 1,
               !.pre = [pipe |-> pipe, bufs |-> bufs, mem |-> mem]]

\* the client is between two calls
BufCall == spc = "c_idle" /\ gl.n < MaxBufOps

\* the buffer the client works on: the one it allocated last
Current == IF bufs = <<>> THEN {} ELSE {Head(bufs)}

\* pipe_open has returned; no buffer is allocated, no coverage map attached
LibInit ==
    /\ Outside(CHOOSE e \in Envs : ~e.shm, "running")
    /\ spc = "c_idle"
    /\ sret = "c_idle"
    /\ pipe = pipe_open(PIPE_MAGIC)
    /\ gp = GpInit(PIPE_MAGIC)
    /\ head = ZeroHead
    /\ data = <<>>
    /\ used = 0

\* buf is in the list pipe->bufs
InList(l, buf) == \E i \in 1..Len(l) : l[i] = buf

\* magic-pipe.c 151-167: pipe_alloc_buf
BufAlloc ==
    /\ BufCall
    /\ gl.ids < MaxBufs
    /\ \E size \in AllocSizes :
          IF ~AllocAccepts(size)
          THEN /\ gl' = LibCall("alloc", [size |-> size, buf |-> 0], MP_EINVAL)
               /\ UNCHANGED <<spc, bufs, mem>>
          ELSE \/ \E raw \in pipemem_alloc :
                     LET id == gl.ids + 1
                     IN  /\ mem' = mem @@ (id :> new_buf_desc(
                                             size + SIZEOF_PIPE_HEADER, raw))
                         /\ bufs' = <<id>> \o bufs
                         /\ gl' = [LibCall("alloc",
                                           [size |-> size, buf |-> id], 0)
                                       EXCEPT !.ids = id]
                         /\ UNCHANGED spc
               \* pipemem_alloc returns NULL: map_proto_buf returns errno,
               \* and new_buf_desc asserts head when that is 0
               \/ \E e \in pipeos_errno :
                     /\ gl' = LibCall("alloc", [size |-> size, buf |-> 0], e)
                     /\ spc' = IF e = 0 THEN "abort" ELSE spc
                     /\ UNCHANGED <<bufs, mem>>
    /\ UNCHANGED <<pipe, BufRest>>

\* magic-pipe.c 207-216: pipe_add_used, after the client wrote len bytes
\* where they fit
BufAdd ==
    /\ BufCall
    /\ gl.adds < MaxAdds
    /\ \E b \in Current, len \in BufAddLens, align_bits \in AddAligns :
          LET h == mem[b].head
              at == calc_aligned(pipe_header_get_used(h), align_bits)
          IN  /\ gl' = [LibCall("add", [buf |-> b, len |-> len,
                                        align |-> align_bits], 0)
                            EXCEPT !.adds = @ + 1]
              /\ IF AddUsedFits(h, len, align_bits)
                 THEN /\ mem' = [mem EXCEPT
                            ![b].head = pipe_add_used(h, len, align_bits),
                            ![b].wr = IF len > 0 /\ len <= pipe_buf_left(h)
                                      THEN Append(@, [off |-> at, len |-> len,
                                                      val |-> 1])
                                      ELSE @]
                      /\ UNCHANGED spc
                 ELSE /\ spc' = "abort"
                      /\ UNCHANGED mem
    /\ UNCHANGED <<pipe, bufs, BufRest>>

\* magic-pipe.c 184-193: pipe_clear_buf
BufClear ==
    /\ BufCall
    /\ \E b \in Current :
          /\ pipe_buf_used(mem[b].head) # 0
          /\ mem' = [mem EXCEPT
                ![b].head = pipe_clear_buf(@),
                ![b].wr = Append(@, [off |-> 0,
                                     len |-> pipe_buf_used(mem[b].head),
                                     val |-> 0])]
          /\ gl' = LibCall("clear", [buf |-> b], 0)
    /\ UNCHANGED <<spc, pipe, bufs, BufRest>>

\* magic-pipe.c 169-182: pipe_grow_buf
BufGrow ==
    /\ BufCall
    /\ gl.grows < MaxGrows
    /\ \E b \in Current, len \in GrowLens :
          \/ /\ mem' = [mem EXCEPT ![b] = pipe_grow_buf(@, len)]
             /\ gl' = [LibCall("grow", [buf |-> b, len |-> len], 0)
                           EXCEPT !.grows = @ + 1]
          \* pipemem_realloc returns NULL: pipe_grow_buf returns errno
          \/ \E e \in pipeos_errno :
                /\ gl' = [LibCall("grow", [buf |-> b, len |-> len], e)
                              EXCEPT !.grows = @ + 1]
                /\ UNCHANGED mem
    /\ UNCHANGED <<spc, pipe, bufs, BufRest>>

\* magic-pipe.c 234-261: pipe_send_buf; the receiver answers with a magic
\* and a used-count of its choice, after n retries
BufSend ==
    /\ BufCall
    /\ gl.sends < MaxBufSends
    /\ \E b \in Current :
          LET h == mem[b].head
              call == [LibCall("send", [buf |-> b], 0)
                           EXCEPT !.sends = @ + 1, !.sent = @ \cup {b}]
          IN  IF pipe_header_size_ok(h)
              THEN \E m \in Magics, u \in AnsUsed :
                      LET n == IF u = 0 THEN 0 ELSE 1
                          ans == pipe_header_set_csum(
                                     [h EXCEPT !.magic = m, !.used = u,
                                               !.retry = 0])
                          r == pipe_send_buf(pipe, h, n, ans)
                      IN  /\ pipe' = r.pipe
                          /\ mem' = [mem EXCEPT
                                ![b].head = r.head,
                                ![b].wr = IF u = 0 THEN @
                                          ELSE Append(@, [off |-> 0, len |-> u,
                                                          val |-> 7])]
                          /\ gl' = call
                          /\ UNCHANGED spc
              ELSE /\ spc' = "abort"
                   /\ gl' = call
                   /\ UNCHANGED <<pipe, mem>>
    /\ UNCHANGED <<bufs, BufRest>>

\* magic-pipe.c 263-283: pipe_free_buf with any handle the client was given
BufFree ==
    /\ BufCall
    /\ \E b \in 1..gl.ids :
          /\ bufs' = pipe_free_buf(bufs, b)
          /\ mem' = IF InList(bufs, b)
                    THEN [i \in DOMAIN mem \ {b} |-> mem[i]]
                    ELSE mem
          /\ gl' = LibCall("free", [buf |-> b], 0)
    /\ UNCHANGED <<spc, pipe, BufRest>>

BufNext ==
    \/ BufAlloc
    \/ BufAdd
    \/ BufClear
    \/ BufGrow
    \/ BufSend
    \/ BufFree

SpecBuf == LibInit /\ [][BufNext]_vars

(***************************************************************************)
(* SpecCov: the branch tracer on its own: the attribute shm_name is set,   *)
(* and the callbacks of the instrumented instructions record locations.    *)
(***************************************************************************)
\* instrumented instructions executed in one run
MaxCov == 4

\* program counters of the instrumented instructions
CovPcs == {4096, 4100, 16, 48}

CovRest ==
    <<hostVars, aflVars, engVars, shm, tsig, run_alone, ll, dio,
      exit_dsc_list, break_req, snapshot, swVars, gh, bufs, mem>>

\* afl-branch-tracer.c 195-223: set_shmem.  shm_open succeeds or fails; mmap
\* succeeds or returns MAP_FAILED, which is not NULL
set_shmem(area, opened, mmapped) ==
    IF PtrSet(area) THEN area
    ELSE IF ~opened THEN [area EXCEPT !.mapped = FALSE, !.bad = FALSE]
    ELSE IF mmapped THEN [area EXCEPT !.mapped = TRUE]
    ELSE [area EXCEPT !.bad = TRUE]

\* the attribute shm_name is written
CovSetShmem ==
    /\ gl.op # "set_shmem"
    /\ tpc = "running"
    /\ \E opened \in BOOLEAN, mmapped \in BOOLEAN :
          /\ afl_area' = set_shmem(afl_area, opened, mmapped)
          /\ gl' = [gl EXCEPT !.op = "set_shmem",
                              !.arg = [opened |-> opened,
                                       mmapped |-> opened /\ mmapped],
                              !.pre = [area |-> afl_area, prev |-> prev_loc]]
    /\ UNCHANGED <<prev_loc, tpc, CovRest>>

\* afl-branch-tracer.c 106-127: call_cb, ret_cb, jcc_cb
CovRecord ==
    /\ gl.n < MaxCov
    /\ tpc = "running"
    /\ \E pc \in CovPcs :
          /\ TracerRecord(pc)
          /\ gl' = [gl EXCEPT !.op = "record", !.arg = pc, !.n = @ + 1,
                              !.pre = [area |-> afl_area,
                                       prev |-> prev_loc],
                              !.trace = IF afl_area.mapped
                                        THEN Append(@, pc) ELSE @]
    /\ UNCHANGED CovRest

CovNext == CovSetShmem \/ CovRecord

SpecCov == LibInit /\ [][CovNext]_vars

(***************************************************************************)
(* SpecLoop: the software under test runs a loop; the conditional branch   *)
(* that closes the loop is executed again and again in one run, and        *)
(* jcc_cb records it each time.                                            *)
(***************************************************************************)
\* executions of the branch in one run
MaxHits == 300

\* program counter of the branch that closes the loop
LoopPcs == {16}

\* afl-branch-tracer.c 122-127: jcc_cb for the branch of the loop
LoopRecord ==
    /\ gl.n < MaxHits
    /\ tpc = "running"
    /\ \E pc \in LoopPcs :
          /\ TracerRecord(pc)
          /\ gl' = [gl EXCEPT !.op = "record", !.arg = pc, !.n = @ + 1,
                              !.pre = [area |-> afl_area,
                                       prev |-> prev_loc]]
    /\ UNCHANGED CovRest

LoopNext == CovSetShmem \/ LoopRecord

SpecLoop == LibInit /\ [][LoopNext]_vars

(***************************************************************************)
(* SpecCtx: two branch tracers, each connected to one processor, attached  *)
(* to the same coverage map; the simulator runs both processors in one     *)
(* host thread, so the callbacks of both use the same static __thread      *)
(* prev_loc of afl_maybe_log.                                              *)
(***************************************************************************)
\* instrumented instructions executed by the processors together
MaxCtxRecs == 4

\* the tracer objects, one per processor
Tracers == {1, 2}

\* program counters of the instrumented instructions
CtxPcs == {4096, 4100}

\* afl-branch-tracer.c 106-127: call_cb, ret_cb, jcc_cb with user_data = the
\* tracer c
CtxRecord ==
    /\ gl.n < MaxCtxRecs
    /\ tpc = "running"
    /\ \E c \in Tracers, pc \in CtxPcs :
          /\ TracerRecord(pc)
          /\ gl' = [gl EXCEPT !.op = "record", !.arg = pc, !.n = @ + 1,
                              !.pre = [area |-> afl_area,
                                       prev |-> prev_loc],
                              !.trace = IF afl_area.mapped
                                        THEN Append(@, [ctx |-> c, pc |-> pc])
                                        ELSE @]
    /\ UNCHANGED CovRest

CtxNext == CovSetShmem \/ CtxRecord

SpecCtx == LibInit /\ [][CtxNext]_vars

(***************************************************************************)
(* SpecAfl: the forkserver adapter (confuse-afl-wrapper.cpp) driven by the *)
(* loop of main (fake_harness.cpp), with the words it writes and the       *)
(* results of its reads and writes on the descriptors 198/199.             *)
(* confuse_reset and confuse_run are the calls modelled in Spec; here they *)
(* return, and their results are not looked at (fake_harness.cpp 78, 88).  *)
(***************************************************************************)
\* iterations of the loop of main
MaxAflIter == 2

RECURSIVE BitOr(_, _)
BitOr(a, b) ==
    IF a = 0 THEN b
    ELSE IF b = 0 THEN a
    ELSE (IF a % 2 = 1 \/ b % 2 = 1 THEN 1 ELSE 0)
         + 2 * BitOr(a \div 2, b \div 2)

\* a uint32_t as the four bytes memcpy(tmp, &status, 4) copies, the least
\* significant byte first; hi and lo are its 16-bit halves
Bytes32(hi, lo) == <<lo % 256, lo \div 256, hi % 256, hi \div 256>>

\* the bitwise or of two uint32_t
Or32(a, b) == [i \in 1..4 |-> BitOr(a[i], b[i])]

\* confuse-afl-wrapper.cpp 33-37: 0x80000001, 0x40000000, 0x01000000
FS_OPT_ENABLED == Bytes32(32768, 1)
FS_OPT_MAPSIZE == Bytes32(16384, 0)
FS_OPT_SHDMEM_FUZZ == Bytes32(256, 0)

\* confuse-afl-wrapper.cpp 40: (0x00fffffeU >> 1) + 1
FS_OPT_MAX_MAPSIZE == (16777214 \div 2) + 1

\* a map-size field that is the size itself, not size - 1 shifted by one
SetMapsizePlain(x) ==
    IF x <= 1 \/ x > FS_OPT_MAX_MAPSIZE THEN 0 ELSE x

\* confuse-afl-wrapper.cpp 41-42: FS_OPT_SET_MAPSIZE
FS_OPT_SET_MAPSIZE(x) ==
    IF x <= 1 \/ x > FS_OPT_MAX_MAPSIZE THEN 0 ELSE (x - 1) * 2

\* confuse-afl-wrapper.cpp 59, 85: the status word of the build with
\* MAP_SIZE = map_size, with or without the input region
StatusWord(map_size, fuzz) ==
    LET f == FS_OPT_SET_MAPSIZE(map_size)
        s == Or32(Or32(FS_OPT_ENABLED, FS_OPT_MAPSIZE),
                  Bytes32(f \div 65536, f % 65536))
    IN  IF fuzz THEN Or32(s, FS_OPT_SHDMEM_FUZZ) ELSE s

\* signal.h: SIGABRT
SIGABRT == 6

\* confuse-afl-wrapper.cpp 124: int32_t status = crash ? SIGABRT : 0
ReportWord(crash) == Bytes32(0, IF crash THEN SIGABRT ELSE 0)

\* confuse-afl-wrapper.cpp 116: getpid(), the same in every iteration
PidWord == Bytes32(0, 12345)

\* the values of MAP_SIZE a build can have: confuse-afl-wrapper.h 22 has
\* 1 << 16
MapSizes == {1, 2, MAP_SIZE, FS_OPT_MAX_MAPSIZE, FS_OPT_MAX_MAPSIZE + 1}

\* the environments of SpecAfl: the variables, the descriptors, the build
AflEnvs ==
    {[shm |-> s, fuzz |-> f, fd |-> d, map_size |-> m] :
        s \in BOOLEAN, f \in BOOLEAN, d \in {"nofd", "open"}, m \in MapSizes}

\* fake_harness.cpp 44: the data region the input is copied to has MAP_SIZE
\* bytes
max_input_size == MAP_SIZE

\* the length prefix found in the input region
AflLens == {0, 2, max_input_size + 1}

\* read(198, tmp, 4): the bytes read, 0 at end of file, -1 for an error
ReadResults(c) ==
    CASE c.state = "open" -> {4, 2}
      [] c.state = "nofd" -> {-1}
      [] OTHER -> {0}

\* write(199, p, 4): the bytes written, -1 for an error, "sigpipe" is
\* number -2 here: the engine has closed its end, SIGPIPE ends the process
WriteResults(c) ==
    CASE c.state = "open" -> {4, 2}
      [] c.state = "nofd" -> {-1}
      [] OTHER -> {0 - 2}

\* a transfer that takes any number of bytes for a word
SomeBytes(n) == n > 0

\* confuse-afl-wrapper.cpp 91, 110, 117, 125: the result is compared with 4
FullWord(n) == n = 4

\* the bytes in the pipe after write(199, word, 4) returned n
WrittenBytes(c, word, n) ==
    IF n > 0 THEN [c EXCEPT !.out = Append(@, SubSeq(word, 1, n))] ELSE c

AflRest ==
    <<wret, rv, sig_usr2_from_simics, hsig, simics, env, epc, shm, simVars,
      covVars, swVars, gh, bufs, mem>>

\* an event of the history: a read or write on a descriptor, a dereference
\* of the input region, a run of the target
AflEvent(ev, what, n) == [ev |-> ev, what |-> what, n |-> n, it |-> iter]

\* the history after the call op with the events evs
AflCalled(op, rc, evs) ==
    [gl EXCEPT !.op = op, !.rc = rc, !.n = @ + 1,
               !.pre = [afl |-> afl, ctl |-> ctl, input_size |-> input_size,
                        evs |-> Len(gl.trace)],
               !.trace = @ \o evs]

AflStart ==
    /\ \E e \in AflEnvs : Outside(e, "running")
    /\ spc = "c_idle"
    /\ sret = "c_idle"
    /\ pipe = pipe_open(PIPE_MAGIC)
    /\ gp = GpInit(PIPE_MAGIC)
    /\ head = ZeroHead
    /\ data = <<>>
    /\ used = 0

\* fake_harness.cpp 35-56: main up to the call of confuse_aflplusplus_init,
\* confuse_init has returned 0
AdMain ==
    /\ hpc = "h_start"
    /\ hpc' = "h_aflinit"
    /\ UNCHANGED <<iter, aflVars, ctl, afl_in, gl, AflRest>>

\* confuse-afl-wrapper.cpp 57-97: confuse_aflplusplus_init; shmat succeeds
\* or fails
AdInit ==
    /\ hpc = "h_aflinit"
    /\ IF ~env.shm
       THEN /\ hpc' = "h_loop"
            /\ gl' = AflCalled("init", 0 - 1, <<>>)
            /\ UNCHANGED <<afl, afl_input_ptr, ctl>>
       ELSE \E attached \in BOOLEAN, n \in WriteResults(ctl) :
              IF ~attached
              THEN /\ hpc' = "h_exit"
                   /\ gl' = AflCalled("init", 1, <<>>)
                   /\ UNCHANGED <<afl, afl_input_ptr, ctl>>
              ELSE /\ afl_input_ptr' = env.fuzz
                   /\ ctl' = WrittenBytes(ctl,
                                 StatusWord(env.map_size, env.fuzz), n)
                   /\ afl' = IF FullWord(n) THEN TRUE ELSE afl
                   /\ hpc' = IF n = 0 - 2 THEN "h_killed" ELSE "h_loop"
                   /\ gl' = AflCalled("init", 0,
                                <<AflEvent("write", "hello", n)>>)
    /\ UNCHANGED <<iter, input_size, afl_in, AflRest>>

\* fake_harness.cpp 76-78: the loop test and confuse_reset
AdLoop ==
    /\ hpc = "h_loop"
    /\ hpc' = IF iter < MaxAflIter THEN "h_getinput" ELSE "h_done"
    /\ UNCHANGED <<iter, aflVars, ctl, afl_in, gl, AflRest>>

\* confuse-afl-wrapper.cpp 130-136: confuse_get_afl_input; the region holds
\* the prefix the engine or the memcpy of the last iteration left
AdFetch ==
    /\ hpc = "h_getinput"
    /\ IF ~afl_input_ptr
       THEN /\ hpc' = "h_crashed"
            /\ gl' = AflCalled("fetch", 0, <<AflEvent("deref", "null", 0)>>)
            /\ UNCHANGED <<input_size, afl_in>>
       ELSE \E l \in AflLens :
              /\ afl_in' = [len |-> l]
              /\ input_size' = l
              /\ hpc' = "h_aflwait"
              /\ gl' = AflCalled("fetch", 0, <<AflEvent("deref", "input", l)>>)
    /\ UNCHANGED <<iter, afl, afl_input_ptr, ctl, AflRest>>

\* confuse-afl-wrapper.cpp 106-114: the read of confuse_afl_wait
AdWaitRead ==
    /\ hpc = "h_aflwait"
    /\ \E n \in ReadResults(ctl) :
          /\ afl' = IF ~FullWord(n) THEN FALSE ELSE afl
          /\ hpc' = IF ~FullWord(n) THEN "h_memcpy" ELSE "h_aflwait_write"
          /\ gl' = AflCalled("wait", 0, <<AflEvent("read", "go", n)>>)
    /\ UNCHANGED <<iter, afl_input_ptr, input_size, ctl, afl_in, AflRest>>

\* confuse-afl-wrapper.cpp 116-118: the pid word of confuse_afl_wait
AdWaitWrite ==
    /\ hpc = "h_aflwait_write"
    /\ \E n \in WriteResults(ctl) :
          /\ ctl' = WrittenBytes(ctl, PidWord, n)
          /\ afl' = IF ~FullWord(n) THEN FALSE ELSE afl
          /\ hpc' = IF n = 0 - 2 THEN "h_killed" ELSE "h_memcpy"
          /\ gl' = [AflCalled("wait", 0, <<AflEvent("write", "pid", n)>>)
                       EXCEPT !.pre = gl.pre, !.n = gl.n]
    /\ UNCHANGED <<iter, afl_input_ptr, input_size, afl_in, AflRest>>

\* fake_harness.cpp 83-88: the two memcpy and confuse_run; what the first
\* memcpy leaves in the input region is among the prefixes AdFetch finds
AdRun ==
    /\ hpc = "h_memcpy"
    /\ hpc' = "h_report"
    /\ gl' = AflCalled("run", 0, <<AflEvent("run", "target", 0)>>)
    /\ UNCHANGED <<iter, aflVars, ctl, afl_in, AflRest>>

\* confuse-afl-wrapper.cpp 122-127: confuse_afl_report(false), and ++i
AdReport ==
    /\ hpc = "h_report"
    /\ \E n \in WriteResults(ctl) :
          /\ ctl' = WrittenBytes(ctl, ReportWord(FALSE), n)
          /\ afl' = IF ~FullWord(n) THEN FALSE ELSE afl
          /\ IF n = 0 - 2
             THEN hpc' = "h_killed" /\ UNCHANGED iter
             ELSE hpc' = "h_loop" /\ iter' = iter + 1
          /\ gl' = AflCalled("report", 0, <<AflEvent("write", "status", n)>>)
    /\ UNCHANGED <<afl_input_ptr, input_size, afl_in, AflRest>>

\* the engine exits: its ends of the pipes are closed
AdEngineClose ==
    /\ ctl.state = "open"
    /\ hpc \notin HostEnded
    /\ ctl' = [ctl EXCEPT !.state = "closed"]
    /\ UNCHANGED <<hpc, iter, aflVars, afl_in, gl, AflRest>>

AflNext ==
    \/ AdMain \/ AdInit \/ AdLoop \/ AdFetch \/ AdWaitRead \/ AdWaitWrite
    \/ AdRun \/ AdReport \/ AdEngineClose

SpecAfl == AflStart /\ [][AflNext]_vars

(***************************************************************************)
(* SpecExit: the exit descriptors of confuse_dio.  A collaborator adds     *)
(* and clears them in any order; gl.sent is the set of breakpoints that    *)
(* have a callback on Core_Breakpoint_Memop, gl.trace the pairs added      *)
(* since the last clear.                                                   *)
(***************************************************************************)
\* calls of add_abnormal_exit and clear_abnormal_exits
MaxExitOps == 4

\* breakpoint ids and messages the collaborator passes
ExitBps == {1, 2, 3}
ExitMsgs == {MsgUD, MsgFail}

ExitRest ==
    <<hostVars, aflVars, engVars, shm, tpc, tsig, run_alone, ll, dio,
      break_req, snapshot, covVars, swVars, gh, bufs, mem>>

\* confuse-dio.c 317-324: print_configured_abnormal_exits lists the nodes
\* that have a next node
print_configured_abnormal_exits(list) == SubSeq(list, 1, Len(list) - 1)

\* a clear that unlinks nothing
ClearKeepsList(list) == list

\* confuse-dio.c 326-340: clear_abnormal_exits.  Every node but the first is
\* freed; the first keeps its bp and its (freed) msg and becomes the last
clear_abnormal_exits(list) == <<Head(list)>>

\* confuse-dio.c 333: the callbacks SIM_hap_delete_callback_id removes, one
\* for each node that has a next node
DeletedCallbacks(list) == {list[i].bp : i \in 1..(Len(list) - 1)}

\* the state a call starts in
ExitCalled(op, arg, rc, cbs, pairs) ==
    [gl EXCEPT !.op = op, !.arg = arg, !.rc = rc, !.n = @ + 1,
               !.pre = [list |-> exit_dsc_list, sent |-> gl.sent,
                        trace |-> gl.trace],
               !.sent = cbs, !.trace = pairs]

\* confuse-dio.c 189-201: the object is created
ExitInit ==
    /\ exit_dsc_list = <<>>
    /\ exit_dsc_list' = dio_init_object
    /\ UNCHANGED <<gl, ExitRest>>

\* confuse-dio.c 342-359: add_abnormal_exit; rc 1: "already registered"
ExitAdd ==
    /\ exit_dsc_list # <<>>
    /\ gl.n < MaxExitOps
    /\ \E bp \in ExitBps, message \in ExitMsgs :
          LET known == bp \in DeletedCallbacks(exit_dsc_list)
              arg == [bp |-> bp, msg |-> message]
          IN  /\ exit_dsc_list' = add_abnormal_exit(exit_dsc_list, bp, message)
              /\ gl' = IF known
                       THEN ExitCalled("add", arg, 1, gl.sent, gl.trace)
                       ELSE ExitCalled("add", arg, 0, gl.sent \cup {bp},
                                       Append(gl.trace, arg))
    /\ UNCHANGED ExitRest

\* confuse-dio.c 326-340: clear_abnormal_exits
ExitClear ==
    /\ exit_dsc_list # <<>>
    /\ gl.n < MaxExitOps
    /\ exit_dsc_list' = clear_abnormal_exits(exit_dsc_list)
    /\ gl' = ExitCalled("clear", <<>>, 0,
                        gl.sent \ DeletedCallbacks(exit_dsc_list), <<>>)
    /\ UNCHANGED ExitRest

ExitNext == ExitInit \/ ExitAdd \/ ExitClear

SpecExit == LibInit /\ [][ExitNext]_vars

(***************************************************************************)
(* SpecIter: the tracer over several iterations.  Between two iterations   *)
(* the control process requests a reset and the simulator restores micro   *)
(* checkpoint 0.                                                           *)
(***************************************************************************)
\* records and resets of one execution
MaxIterOps == 4

\* program counters of the instrumented instructions; those of the last two
\* have a location in the upper half of the map
IterPcs == CovPcs \cup {128, 240}

IterRest ==
    <<hostVars, aflVars, engVars, shm, tsig, run_alone, ll, dio,
      exit_dsc_list, break_req, snapshot, gh, bufs, mem>>

\* afl-branch-tracer.c 106-127: an instrumented instruction of the iteration
IterRecord ==
    /\ gl.n < MaxIterOps
    /\ tpc = "running"
    /\ \E pc \in IterPcs :
          /\ TracerRecord(pc)
          /\ gl' = [gl EXCEPT !.op = "record", !.arg = pc, !.n = @ + 1,
                              !.pre = [area |-> afl_area, prev |-> prev_loc],
                              !.trace = IF afl_area.mapped
                                        THEN Append(@, pc) ELSE @]
    /\ UNCHANGED <<swVars, IterRest>>

\* confuse-ll.c 57-64: restore_and_clear puts the simulated machine back
\* to the snapshot; afl_maybe_log's static prev_loc and the coverage map
\* belong to the simulator process and are not part of it
IterReset ==
    /\ gl.n < MaxIterOps
    /\ tpc = "running"
    /\ spc' = snapshot.spc
    /\ sret' = snapshot.sret
    /\ pipe' = snapshot.pipe
    /\ head' = snapshot.head
    /\ data' = snapshot.data
    /\ used' = snapshot.used
    /\ gp' = snapshot.gp
    /\ gl' = [gl EXCEPT !.op = "reset", !.arg = <<>>, !.n = @ + 1,
                        !.pre = [area |-> afl_area, prev |-> prev_loc],
                        !.trace = <<>>]
    /\ UNCHANGED <<afl_area, prev_loc, tpc, IterRest>>

IterNext == CovSetShmem \/ IterRecord \/ IterReset

SpecIter == LibInit /\ [][IterNext]_vars

(***************************************************************************)
(* SpecDio: the callbacks of the data I/O module over several iterations   *)
(* of Hello.c.  The control process starts an iteration when the           *)
(* simulation has stopped: reset, input into the data region, run.         *)
(***************************************************************************)
\* iterations of one execution
MaxDioIter == 3

DioRest ==
    <<hpc, wret, rv, sig_usr2_from_simics, hsig, simics, aflVars, engVars,
      tsig, run_alone, ll, break_req, snapshot, covVars, gh, bufs, mem>>

\* confuse-dio.c 189-201 and the start-up script: the objects exist, the exit
\* descriptor is registered, the target stands at the snapshot
DioBoot ==
    /\ exit_dsc_list = <<>>
    /\ exit_dsc_list' = add_abnormal_exit(dio_init_object, BpUD, MsgUD)
    /\ tpc' = "stopped"
    /\ UNCHANGED <<iter, shm, dio, swVars, gl, DioRest>>

\* fake_harness.cpp 78-88: confuse_reset (the snapshot is restored), the
\* input is copied into the data region unless its length is 0, confuse_run
DioIterStart ==
    /\ exit_dsc_list # <<>>
    /\ tpc = "stopped"
    /\ gl.n < MaxDioIter
    /\ spc' = snapshot.spc
    /\ sret' = snapshot.sret
    /\ pipe' = snapshot.pipe
    /\ head' = snapshot.head
    /\ data' = snapshot.data
    /\ used' = snapshot.used
    /\ gp' = snapshot.gp
    /\ iter' = gl.n
    /\ \E b \in HarnessBytes \cup {<<0, <<>>>>} :
          shm' = IF b[1] = 0 THEN shm
                 ELSE [len |-> b[1], data |-> b[2], src |-> "harness",
                       it |-> gl.n]
    /\ tpc' = "running"
    /\ gl' = [gl EXCEPT !.op = "start", !.n = @ + 1,
                        !.arg = dio.skip_write_to_target,
                        !.pre = [shm |-> shm, dio |-> dio]]
    /\ UNCHANGED <<dio, exit_dsc_list, DioRest>>

\* one trap of pipe_send_buf with the buffer h, d: pipe_send_buf up to the
\* trap, then the magic pipe calls the reader and the writer of the module
\* and hands the buffer back
DioTrap(p, h, d) ==
    LET s == SendPrepare(p, h)
        r == pipe_agent_reader(dio, shm, s.head, d, iter)
        w == pipe_agent_writer(r.dio, shm, s.head, d)
        back == pipe_header_set_csum(pipe_header_set_retry(w.head, FALSE))
    IN  [dio |-> w.dio, shm |-> r.shm, brk |-> r.brk, head |-> back,
         data |-> w.data, pipe |-> SendFinish(s.pipe, back)]

\* Hello.c 103-104: pipe_clear_buf and the first, empty pipe_send_buf
DioFirstSend ==
    /\ tpc = "running"
    /\ spc = "s_start"
    /\ LET t == DioTrap(pipe, pipe_clear_buf(head), <<>>)
       IN  /\ dio' = t.dio
           /\ shm' = t.shm
           /\ head' = t.head
           /\ data' = t.data
           /\ pipe' = t.pipe
           /\ tpc' = IF t.brk THEN "stopped" ELSE "running"
    /\ spc' = "s_getmsg"
    /\ gl' = [gl EXCEPT !.op = "first", !.arg = dio.skip_write_to_target,
                        !.pre = [shm |-> shm, dio |-> dio,
                                 left |-> pipe_buf_left(pipe_clear_buf(head))]]
    /\ UNCHANGED <<iter, exit_dsc_list, sret, used, gp, DioRest>>

\* Hello.c 106-133: the command byte decides; 'H' runs into the invalid
\* opcode and the breakpoint of the exit descriptor, otherwise the answer is
\* sent with the second pipe_send_buf
DioCommand ==
    /\ tpc = "running"
    /\ spc = "s_getmsg"
    /\ \E c \in IF pipe_buf_used(head) = 0 THEN NullBytes ELSE {data[1]} :
          IF c = -1
          THEN /\ spc' = "s_fault"
               /\ UNCHANGED <<dio, shm, head, data, pipe, tpc>>
          ELSE IF c = 72
          THEN /\ spc' = "s_halt"
               /\ shm' = bp_handler(exit_dsc_list[1], iter)
               /\ tpc' = "stopped"
               /\ UNCHANGED <<dio, head, data, pipe>>
          ELSE LET msg == IF c = 65 THEN MsgFail ELSE MsgOK
                   t == DioTrap(pipe,
                                pipe_add_used(pipe_clear_buf(head),
                                              strlen(msg) + 1, 0),
                                msg \o <<0>>)
               IN  /\ dio' = t.dio
                   /\ shm' = t.shm
                   /\ head' = t.head
                   /\ data' = t.data
                   /\ pipe' = t.pipe
                   /\ tpc' = IF t.brk THEN "stopped" ELSE "running"
                   /\ spc' = "s_exit"
    /\ gl' = [gl EXCEPT !.op = "command", !.arg = dio.skip_write_to_target,
                        !.pre = [shm |-> shm, dio |-> dio]]
    /\ UNCHANGED <<iter, exit_dsc_list, sret, used, gp, DioRest>>

DioNext == DioBoot \/ DioIterStart \/ DioFirstSend \/ DioCommand

SpecDio == LibInit /\ [][DioNext]_vars

(***************************************************************************)
(* Properties of the run control (Spec, SpecChan).                         *)
(***************************************************************************)
ReturnPcs == {"h_init_ret", "h_reset_ret", "h_run_ret"}

\* C1: confuse_reset / confuse_run send their notification and then block;
\* they return 0 only after the handler of the control process has run for an
\* acknowledgement of the target, and that acknowledgement answers the
\* request that was sent.
C1_ReturnAfterAck ==
    /\ (hpc \in {"h_reset_ret", "h_run_ret"} /\ rv = 0) =>
          /\ gh.consumed >= 1
          /\ gh.reqSent = wret
          /\ gh.ackOf = wret
    /\ (hpc \in WaitPcs /\ wret \in {"reset", "run"}) => gh.reqSent = wret
    /\ (hpc \in {"w_unblock", "w_clear"}) => gh.acks >= 1

\* confuse_reset has returned 0 after the acknowledgement of the restore
C1_Witness ==
    /\ hpc = "h_reset_ret"
    /\ rv = 0
    /\ gh.consumed >= 1
    /\ gh.ackOf = "reset"

C3_RecordsInRunWindow ==
    [][/\ (afl_area'.map # afl_area.map \/ prev_loc' # prev_loc) =>
              /\ hpc \in WaitPcs
              /\ wret = "run"
              /\ gh.reqSent = "run"
              /\ ~gh.ackSent
       /\ (hpc' = "h_report" /\ rv' = 0) => tpc' # "running"]_vars

\* a record was made inside the run window and the run was acknowledged
C3_Witness ==
    /\ gh.recs >= 1
    /\ gh.ackSent
    /\ hpc = "h_report"
    /\ rv = 0

\* C4: when the run notification is sent in an iteration whose go word was
\* read, the input length was fetched after that go word and is the length
\* the engine delivered with it.
C4_InputAfterGo ==
    (hpc = "h_run_kill" /\ gh.goRead) =>
        /\ gh.fetched = "after_go"
        /\ input_size = gh.goLen

\* C5: confuse_init returns 0 only with the handler installed and after the
\* handler has run for the readiness notification of the target.
C5_StartAfterReady ==
    (hpc = "h_init_ret" /\ rv = 0) =>
        /\ hsig.installed
        /\ gh.readySent
        /\ gh.consumed >= 1

\* confuse_init has returned 0
C5_Witness ==
    /\ hpc = "h_init_ret"
    /\ rv = 0
    /\ gh.ackOf = "init"

\* C6: after a failure of confuse_init, confuse_reset or confuse_run (no
\* child process, no simulator, no handler, no delivery) the call returns -1
\* and nobody is in the blocking wait.
C6_FailuresReturn ==
    gh.fail # "none" =>
        /\ hpc \in ReturnPcs
        /\ rv = -1
        /\ tpc # "child_wait"

\* C7: the flag of the control process coalesces: it is 1 exactly when the
\* handler ran at least once since the last wait ended, however often it
\* ran; a wait ends only then and leaves the flag 0.
C7_Coalesces ==
    /\ sig_usr2_from_simics = (IF gh.acks > 0 THEN 1 ELSE 0)
    /\ (hpc \in {"w_unblock", "w_clear"}) => gh.acks >= 1
    /\ (hpc \in ReturnPcs /\ rv = 0) => gh.consumed >= 1

\* one wait has consumed two notifications
C7_Witness ==
    /\ hpc \in ReturnPcs
    /\ rv = 0
    /\ gh.consumed >= 2
    /\ sig_usr2_from_simics = 0

(***************************************************************************)
(* Properties of pipe_send_buf (SpecPipe).                                 *)
(***************************************************************************)
\* C8: every trap of pipe_send_buf, the first and each retry, presents a
\* header with the retry bit clear, a checksum that verifies and the
\* used-count the buffer had when pipe_send_buf was called.
C8_TrapHeader ==
    spc = "trap" =>
        /\ ~pipe_header_get_retry(head)
        /\ pipe_header_csum_ok(head)
        /\ pipe_header_get_used(head) = gp.usedAtCall

\* C9: pipe_send_buf issues one trap plus one per answer that had the retry
\* bit set, returns exactly on an answer with the retry bit clear, and the
\* retry bit is clear when it has returned.
C9_TrapCount ==
    /\ spc = "trap" => gp.traps = gp.retryAns
    /\ spc = "check" =>
          gp.traps = gp.retryAns + (IF pipe_header_get_retry(head) THEN 0 ELSE 1)
    /\ (spc \notin SendPcs /\ gp.sends > 0) =>
          /\ gp.traps = 1 + gp.retryAns
          /\ ~pipe_header_get_retry(head)

\* a send has returned after two retransmissions
C9_Witness ==
    /\ spc \notin SendPcs
    /\ gp.sends > 0
    /\ gp.retryAns >= 2
    /\ gp.traps = 3

\* C10: the first transmission of a send carries the magic given to open
\* (first send) or the magic found in the header when the previous send
\* returned; pipe_get_magic returns that value between sends.
C10_MagicRotates ==
    /\ (spc = "trap" /\ gp.traps = 0) =>
          pipe_header_get_magic(head) = gp.expectMagic
    /\ spc \notin SendPcs => pipe_get_magic(pipe) = gp.expectMagic
    /\ gp.sends = 0 => gp.expectMagic = gp.openMagic

\* the second send starts with a magic the receiver rotated
C10_Witness ==
    /\ spc = "trap"
    /\ gp.traps = 0
    /\ gp.sends >= 1
    /\ gp.expectMagic # gp.openMagic
    /\ pipe_header_get_magic(head) = gp.expectMagic

(***************************************************************************)
(* Properties of the header accessors (SpecHdr).                           *)
(***************************************************************************)
\* stored checksums a header may hold before pipe_header_set_csum
OldCsums == {0, 7, 65535}

C18_SizeRoundTrip ==
    /\ gl.op = "set_size" =>
          /\ pipe_header_get_size(head) = gl.arg
          /\ head = [gl.pre EXCEPT !.pages = head.pages]
    \* every page count, on the headers of the first call
    /\ (gl.op = "set_size" /\ gl.n = 1) =>
          \A k \in 1..Pow2(16) :
              /\ pipe_header_get_size(
                     pipe_header_set_size(gl.pre, k * PageSize)) = k * PageSize
              /\ pipe_header_set_size(gl.pre, k * PageSize)
                     = [gl.pre EXCEPT !.pages = k - 1]

\* the largest size was set in a header that had another page count, a used
\* count and the retry bit
C18_Witness ==
    /\ gl.op = "set_size"
    /\ gl.arg = Pow2(16) * PageSize
    /\ gl.pre.pages # head.pages
    /\ gl.pre.retry = 1
    /\ gl.pre.used # 0

\* C19: pipe_header_set_used(u) with u < 2^28 makes pipe_header_get_used
\* return u and leaves the retry bit and the reserved bits; and
\* pipe_header_set_retry leaves pipe_header_get_used.
C19_UsedRetryIndependent ==
    /\ (gl.op = "set_used" /\ gl.arg < Pow2(UsedBits)) =>
          /\ pipe_header_get_used(head) = gl.arg
          /\ pipe_header_get_retry(head) = pipe_header_get_retry(gl.pre)
          /\ head.rsvd = gl.pre.rsvd
    /\ gl.op = "set_retry" =>
          /\ pipe_header_get_used(head) = pipe_header_get_used(gl.pre)
          /\ pipe_header_get_retry(head) = (gl.arg = 1)

\* a used count was set while the retry bit and reserved bits were set
C19_Witness ==
    /\ gl.op = "set_used"
    /\ gl.arg = Pow2(UsedBits) - 1
    /\ pipe_header_get_retry(gl.pre)
    /\ gl.pre.rsvd # 0
    /\ pipe_header_get_used(gl.pre) # gl.arg

(***************************************************************************)
(* Properties of the buffer management (SpecBuf).                          *)
(***************************************************************************)
\* the buffer the last call was about, before and after the call
PreBuf == gl.pre.mem[gl.arg.buf]
PostBuf == mem[gl.arg.buf]

\* C11: after any sequence of alloc, add_used, clear, grow and send, every
\* buffer of the handle has used + 16 <= size, with size = (pages + 1) * 4096
\* as its header encodes it.
C11_UsedFitsSize ==
    \A b \in DOMAIN mem :
        pipe_header_get_used(mem[b].head) + SIZEOF_PIPE_HEADER
            <= pipe_header_get_size(mem[b].head)

\* C12: pipe_add_used sets the used-count to align_up(used) + delta when that
\* plus the 16-byte header fits in the size of the buffer, and otherwise
\* stops the program and leaves the used-count; it never stores a truncated
\* used-count.
C12_AddUsedOrAbort ==
    gl.op = "add" =>
        LET h == PreBuf.head
            v == calc_aligned(pipe_header_get_used(h), gl.arg.align)
                     + gl.arg.len
        IN  IF gl.arg.len >= 0
               /\ v + SIZEOF_PIPE_HEADER <= pipe_header_get_size(h)
            THEN /\ spc # "abort"
                 /\ pipe_header_get_used(PostBuf.head) = v
            ELSE /\ spc = "abort"
                 /\ mem = gl.pre.mem

\* C13: pipe_alloc_buf returns the invalid-argument error and leaves the
\* buffer list when size + 16 rounded up to the page size exceeds 256 MiB;
\* otherwise the buffer it returns has the size round_up_page(size + 16),
\* used-count 0, a clear retry bit and an all-zero payload, and is in the
\* list of the handle.
C13_AllocZeroed ==
    gl.op = "alloc" =>
        IF calc_map_size(gl.arg.size + SIZEOF_PIPE_HEADER) > MaxMapSize
        THEN /\ gl.rc = MP_EINVAL
             /\ bufs = gl.pre.bufs
             /\ mem = gl.pre.mem
        ELSE gl.arg.buf # 0 =>
                /\ pipe_header_get_size(PostBuf.head)
                       = calc_map_size(gl.arg.size + SIZEOF_PIPE_HEADER)
                /\ pipe_header_get_used(PostBuf.head) = 0
                /\ ~pipe_header_get_retry(PostBuf.head)
                /\ PostBuf.wr = <<>>
                /\ PostBuf.fill = 0
                /\ InList(bufs, gl.arg.buf)

\* C14: a pipe_grow_buf that returns 0 has set the size of the buffer to
\* round_up_page(old size + extra) and has left the magic, the used-count,
\* the retry bit and the payload bytes.
C14_GrowKeepsContent ==
    (gl.op = "grow" /\ gl.rc = 0) =>
        /\ pipe_header_get_size(PostBuf.head)
               = calc_map_size(pipe_header_get_size(PreBuf.head) + gl.arg.len)
        /\ pipe_header_get_magic(PostBuf.head)
               = pipe_header_get_magic(PreBuf.head)
        /\ pipe_header_get_used(PostBuf.head)
               = pipe_header_get_used(PreBuf.head)
        /\ pipe_header_get_retry(PostBuf.head)
               = pipe_header_get_retry(PreBuf.head)
        /\ PostBuf.wr = PreBuf.wr
        /\ PostBuf.fill = PreBuf.fill

\* C15: a pipe_grow_buf that would make the buffer larger than 256 MiB
\* returns an error and leaves the buffer, and the size in the header is
\* never smaller than the memory of the buffer.
C15_GrowLimit ==
    gl.op = "grow" =>
        /\ GrowSize(PreBuf.head, gl.arg.len) > MaxMapSize =>
              /\ gl.rc # 0
              /\ mem = gl.pre.mem
        /\ pipe_header_get_size(PostBuf.head) >= PostBuf.real

\* C16: pipe_free_buf takes exactly the given buffer out of the list and
\* releases it, leaves the other buffers and their order, whether or not the
\* buffer was sent, and changes nothing when the buffer is not in the list.
C16_FreeRemovesOne ==
    gl.op = "free" =>
        /\ bufs = SelectSeq(gl.pre.bufs, LAMBDA x : x # gl.arg.buf)
        /\ DOMAIN mem = DOMAIN gl.pre.mem \ {gl.arg.buf}
        /\ \A b \in DOMAIN mem : mem[b] = gl.pre.mem[b]
        /\ pipe = gl.pre.pipe
        /\ ~InList(gl.pre.bufs, gl.arg.buf) =>
              /\ bufs = gl.pre.bufs
              /\ DOMAIN mem = DOMAIN gl.pre.mem

\* the second of three buffers, which was never sent, was freed
C16_Witness ==
    /\ gl.op = "free"
    /\ Len(gl.pre.bufs) = 3
    /\ gl.pre.bufs[2] = gl.arg.buf
    /\ gl.arg.buf \notin gl.sent
    /\ Len(bufs) = 2

(***************************************************************************)
(* Properties of the coverage map (SpecCov).                               *)
(***************************************************************************)
\* the value of bucket i of the map m
Bucket(m, i) == IF i \in DOMAIN m THEN m[i] ELSE 0

\* C20: a record of the location loc adds one (to an unsigned char) to the
\* bucket h XOR prev_loc, with h = ((loc >> 4) XOR (loc << 8)) AND
\* (map_size - 1), leaves every other bucket and sets prev_loc to h >> 1;
\* the records 0x1000, 0x1004, 0x1000 on a fresh map with prev_loc = 0
\* increment the buckets 0x100, 0x580 and 0x380.
C20_RecordOneBucket ==
    /\ (gl.op = "record" /\ gl.pre.area.mapped) =>
          LET h == BitXor(gl.arg \div 16, gl.arg * 256) % Pow2(16)
              idx == BitXor(h, gl.pre.prev)
              old == gl.pre.area.map
              new == afl_area.map
          IN  /\ Bucket(new, idx) = (Bucket(old, idx) + 1) % 256
              /\ \A j \in (DOMAIN old \cup DOMAIN new) \ {idx} :
                    Bucket(new, j) = Bucket(old, j)
              /\ prev_loc = h \div 2
    /\ gl.trace = <<4096, 4100, 4096>> =>
          afl_area.map = (256 :> 1) @@ (1408 :> 1) @@ (896 :> 1)

\* a record with a non-zero prev_loc incremented a bucket that was not zero
C20_Witness ==
    /\ gl.op = "record"
    /\ gl.pre.area.mapped
    /\ gl.pre.prev # 0
    /\ Bucket(gl.pre.area.map, BitXor(MapLoc(gl.arg), gl.pre.prev)) >= 1
    /\ Cardinality(DOMAIN afl_area.map) >= 2

(***************************************************************************)
(* Properties of the coverage map under repeated hits (SpecLoop).          *)
(***************************************************************************)
\* C21: a bucket is a saturating counter: a record never changes a bucket
\* whose value is 255; it stays 255 and does not wrap around to 0.
C21_Saturates ==
    (gl.op = "record" /\ gl.pre.area.mapped) =>
        \A j \in DOMAIN gl.pre.area.map :
            gl.pre.area.map[j] = 255 => Bucket(afl_area.map, j) = 255

\* C22: when the coverage map is missing (never configured, or set_shmem
\* failed to open or to map the region), a record writes nothing, leaves
\* prev_loc and lets the target run on; a set_shmem that failed leaves the
\* map pointer unset.
C22_MissingMapNoOp ==
    /\ (gl.op = "record" /\ ~gl.pre.area.mapped) =>
          /\ afl_area = gl.pre.area
          /\ prev_loc = gl.pre.prev
          /\ tpc = "running"
    /\ (gl.op = "set_shmem" /\ ~PtrSet(gl.pre.area) /\ ~gl.arg.mmapped) =>
          ~PtrSet(afl_area)

(***************************************************************************)
(* Properties of the coverage of several processors (SpecCtx).             *)
(***************************************************************************)
\* the previous location of the context c after the records t: the shifted
\* location of the last record of c, 0 when c has not recorded
RECURSIVE OwnPrev(_, _)
OwnPrev(t, c) ==
    IF t = <<>> THEN 0
    ELSE IF t[Len(t)].ctx = c THEN MapLoc(t[Len(t)].pc) \div 2
    ELSE OwnPrev(SubSeq(t, 1, Len(t) - 1), c)

\* C23: prev_loc belongs to one traced context: the bucket a record
\* increments is selected by the location and by the previous location of
\* the same context, whatever the other contexts recorded in between.
C23_PrevLocPerContext ==
    (gl.op = "record" /\ gl.pre.area.mapped) =>
        LET last == gl.trace[Len(gl.trace)]
            before == SubSeq(gl.trace, 1, Len(gl.trace) - 1)
            idx == BitXor(MapLoc(last.pc), OwnPrev(before, last.ctx))
        IN  Bucket(afl_area.map, idx)
                = (Bucket(gl.pre.area.map, idx) + 1) % 256

(***************************************************************************)
(* Properties of the forkserver adapter (SpecAfl).                         *)
(***************************************************************************)
\* the events of the last adapter call
CallEvents == SubSeq(gl.trace, gl.pre.evs + 1, Len(gl.trace))

\* C24: without the coverage-map variable init returns the
\* not-under-fuzzer result, attaches nothing, writes nothing and leaves the
\* adapter inactive, and every later adapter call is a no-op: no read or
\* write on the descriptors, no access to shared memory.
C24_InertWithoutMap ==
    ~env.shm =>
        /\ gl.op = "init" => gl.rc = 0 - 1
        /\ ~afl
        /\ ~afl_input_ptr
        /\ ctl.out = <<>>
        /\ \A i \in 1..Len(gl.trace) :
              gl.trace[i].ev \notin {"read", "write", "deref"}
        /\ hpc # "h_crashed"

\* C25: with the coverage-map variable present (and the regions attached)
\* init writes one status word of 4 bytes to descriptor 199; the adapter is
\* active afterwards exactly when the write transferred 4 bytes, and a short
\* or failed write does not end the process.
C25_ActiveIffFullWrite ==
    (gl.op = "init" /\ env.shm /\ hpc # "h_exit") =>
        /\ Len(gl.trace) = 1
        /\ gl.trace[1].ev = "write"
        /\ gl.trace[1].what = "hello"
        /\ afl <=> (gl.trace[1].n = 4)
        /\ gl.trace[1].n = 4 =>
              ctl.out = <<StatusWord(env.map_size, env.fuzz)>>
        /\ hpc # "h_killed"

\* bit k of the uint32_t with the bytes w
Bit32(w, k) == (w[(k \div 8) + 1] \div Pow2(k % 8)) % 2

\* ((word AND 0x00fffffe) >> 1) of the uint32_t with the bytes w
MapsizeField(w) == ((w[1] + 256 * w[2] + 65536 * w[3]) \div 2) % Pow2(23)

\* init has written its status word in full
HelloWritten ==
    /\ gl.trace # <<>>
    /\ gl.trace[1].what = "hello"
    /\ gl.trace[1].n = 4

\* the layout of the status word, with the map-size flag at bit flag
StatusLayout(w, flag) ==
    /\ Len(w) = 4
    /\ Bit32(w, 0) = 1
    /\ (Bit32(w, 24) = 1) <=> env.fuzz
    /\ Bit32(w, flag) = 1
    /\ IF 1 < env.map_size /\ env.map_size <= (16777214 \div 2) + 1
       THEN MapsizeField(w) + 1 = env.map_size
       ELSE MapsizeField(w) = 0

\* C26 as stated: bit 0 is set, bit 24 is set exactly when the input-region
\* variable was present, bit 29 is set as the map-size flag, and the
\* map-size field decodes to map_size when 1 < map_size <= 0x00fffffe/2 + 1
\* and is 0 otherwise.
C26_StatusWordBit29 ==
    HelloWritten => StatusLayout(ctl.out[1], 29)

\* C26, amended: the same with the map-size flag at bit 30 (0x40000000);
\* bit 29 is clear, and bit 31 is set with bit 0 (0x80000001).
C26_StatusWord ==
    HelloWritten =>
        /\ StatusLayout(ctl.out[1], 30)
        /\ Bit32(ctl.out[1], 29) = 0
        /\ Bit32(ctl.out[1], 31) = 1

\* the status word of a build with MAP_SIZE = 65536 and the input region
C26_Witness ==
    /\ HelloWritten
    /\ env.fuzz
    /\ env.map_size = Pow2(16)
    /\ ctl.out[1] = <<255, 255, 1, 193>>

\* C27: confuse_afl_wait reads a go word of 4 bytes from descriptor 198; a
\* short read or end of file deactivates the adapter and no pid word is
\* written; after a full read it writes its pid as 4 bytes to descriptor
\* 199, and a short write of that word deactivates the adapter too.
C27_WaitReadsThenWritesPid ==
    gl.op = "wait" =>
        LET evs == CallEvents
            rd == evs[1]
        IN  /\ Len(evs) \in {1, 2}
            /\ rd.ev = "read" /\ rd.what = "go"
            /\ rd.n # 4 =>
                  /\ Len(evs) = 1
                  /\ ~afl
                  /\ ctl.out = gl.pre.ctl.out
                  /\ hpc # "h_aflwait_write"
            /\ (rd.n = 4 /\ Len(evs) = 1) => hpc = "h_aflwait_write"
            /\ Len(evs) = 2 =>
                  /\ rd.n = 4
                  /\ evs[2].ev = "write" /\ evs[2].what = "pid"
                  /\ evs[2].n = 4 =>
                        /\ ctl.out = Append(gl.pre.ctl.out, PidWord)
                        /\ afl = gl.pre.afl
                  /\ evs[2].n # 4 => ~afl

\* a second wait met a short read after the first one had read the go word
\* and written the pid word
C27_Witness ==
    /\ gl.op = "wait"
    /\ Len(CallEvents) = 1
    /\ CallEvents[1].n = 2
    /\ gl.pre.afl
    /\ ~afl
    /\ \E i \in 1..Len(gl.trace) :
          /\ gl.trace[i].what = "pid"
          /\ gl.trace[i].n = 4

\* before position i of the history the iteration it has an event for what
\* that transferred 4 bytes
Earlier(i, what, it) ==
    \E j \in 1..(i - 1) :
        /\ gl.trace[j].what = what
        /\ gl.trace[j].it = it
        /\ gl.trace[j].n = 4

\* C28: for every go word read the adapter writes one pid word and, after
\* the run, one status word, 0 for a normal completion; no status word is
\* written without a pid word written before it in the same iteration.
C28_PidThenStatus ==
    \A i \in 1..Len(gl.trace) :
        LET e == gl.trace[i]
            Of(what) == {j \in 1..Len(gl.trace) :
                            /\ gl.trace[j].what = what
                            /\ gl.trace[j].it = e.it}
        IN  /\ (e.what = "status" /\ e.n = 4) =>
                  /\ Earlier(i, "go", e.it)
                  /\ Earlier(i, "pid", e.it)
                  /\ \E j \in Of("target") : j < i
                  /\ ctl.out[Len(gl.pre.ctl.out) + 1] = Bytes32(0, 0)
                        \/ gl.op # "report" \/ i # Len(gl.trace)
            /\ (e.what = "pid") => Earlier(i, "go", e.it)
            /\ (e.what = "go" /\ e.n = 4 /\ iter > e.it) =>
                  /\ Cardinality(Of("pid")) = 1
                  /\ Cardinality(Of("status")) = 1

\* C29: a short read or write on the descriptors deactivates the adapter
\* and does not end the process; afterwards the adapter stays inactive and
\* drives no iteration: no read, no write, no run of the target.
C29_DeactivatedStops ==
    \A i \in 1..Len(gl.trace) :
        (gl.trace[i].ev \in {"read", "write"} /\ gl.trace[i].n # 4) =>
            /\ ~afl
            /\ hpc # "h_killed"
            /\ \A j \in (i + 1)..Len(gl.trace) :
                  gl.trace[j].ev \notin {"read", "write", "run"}

\* C30: confuse_get_afl_input returns the payload in place with the length
\* of the 4-byte prefix when the input region is attached, falls back to a
\* file otherwise, never dereferences a region that is not attached, and
\* the length is at most max_input_size.
C30_FetchInput ==
    gl.op = "fetch" =>
        /\ hpc # "h_crashed"
        /\ CallEvents[1].what # "null"
        /\ afl_input_ptr => input_size = afl_in.len
        /\ input_size <= max_input_size

(***************************************************************************)
(* Properties of the exit descriptors (SpecExit).                          *)
(***************************************************************************)
\* C31: after any sequence of add_abnormal_exit and clear_abnormal_exits the
\* list holds exactly the (breakpoint id, message) pairs added since the last
\* clear, in the order they were added, followed by exactly one node without
\* a next node; no two entries have the same breakpoint id; exactly the
\* entries have a breakpoint callback; adding a registered id leaves the list
\* unchanged; clear leaves the list empty and usable for further adds
C31_ExitList ==
    exit_dsc_list # <<>> =>
        LET entries == print_configured_abnormal_exits(exit_dsc_list)
        IN  /\ Len(exit_dsc_list) = Len(entries) + 1
            /\ entries = gl.trace
            /\ \A i, j \in 1..Len(entries) :
                  entries[i].bp = entries[j].bp => i = j
            /\ gl.sent = {entries[i].bp : i \in 1..Len(entries)}
            /\ gl.op = "add" /\ gl.rc = 1 => exit_dsc_list = gl.pre.list
            /\ gl.op = "add" /\ gl.rc = 0 =>
                  entries = Append(gl.pre.trace, gl.arg)
            /\ gl.op = "clear" => entries = <<>> /\ gl.sent = {}

\* an entry is added to a list that was cleared after it had held an entry:
\* the first node still held the breakpoint id of the entry it had before
C31_Witness ==
    /\ gl.op = "add"
    /\ gl.rc = 0
    /\ Len(gl.pre.list) = 1
    /\ gl.pre.list[1].bp # 0
    /\ Len(exit_dsc_list) = 2

(***************************************************************************)
(* Properties of the data I/O callbacks (Spec).                            *)
(***************************************************************************)
\* C32: when the input pending in the data region is longer than the space
\* left in the buffer the target sent, the iteration is escalated as a crash:
\* the target does not go on behind its first pipe_send_buf with an empty
\* buffer while the simulation keeps running
C32_OversizeEscalated ==
    ~ /\ SwRuns
      /\ spc = "s_getmsg"
      /\ shm.src = "harness"
      /\ shm.it = iter
      /\ shm.len > pipe_buf_left(pipe_clear_buf(head))
      /\ pipe_buf_used(head) = 0

(***************************************************************************)
(* Properties of the wait of the control process (SpecChan, Spec).         *)
(***************************************************************************)
\* C33: a wait of confuse_reset / confuse_run is ended only by a
\* notification that was sent after the request of that call: when the
\* request is sent, no earlier notification is pending or recorded in the
\* flag, so none can satisfy the wait that follows
C33_OwnNotification ==
    [][(hpc \in {"h_reset_kill", "h_run_kill"} /\ hpc' \in WaitPcs) =>
          (sig_usr2_from_simics = 0 /\ ~hsig.pending)]_vars

\* C34: no wakeup is lost.  The control process never sleeps in sigsuspend
\* while a notification has been delivered to its handler and not consumed,
\* and a wait that has a notification, pending or recorded in the flag,
\* whenever it arrived (before the wait blocked the signal, in the loop, or
\* between the test of the flag and its clearing), ends with the return of
\* the call
C34_NoLostWakeup ==
    /\ [](hpc = "w_suspend" => gh.acks = 0 /\ sig_usr2_from_simics = 0)
    /\ ((hpc \in WaitPcs /\ (sig_usr2_from_simics = 1 \/ hsig.pending))
            ~> (hpc \in ReturnPcs /\ rv = 0))

\* the loop of a reset or run has seen the flag, and a further notification
\* is pending that is delivered before the flag is cleared
C34_Witness ==
    /\ hpc = "w_unblock"
    /\ wret \in {"reset", "run"}
    /\ sig_usr2_from_simics = 1
    /\ hsig.pending

\* C35: no notification of the target reaches the control process while the
\* handler is not installed: the control process is never terminated by a
\* notification, and none is pending for it or sent to it before the
\* handler is in place
C35_HandlerBeforeNotification ==
    /\ hpc # "h_killed"
    /\ (hsig.pending \/ gh.readySent) => hsig.installed

(***************************************************************************)
(* Properties of the tracer over several iterations (SpecIter).            *)
(***************************************************************************)
\* C36: when an iteration starts, after the reset has restored the snapshot,
\* prev_loc is 0, whatever the iteration before has recorded
C36_PrevLocZeroAtStart ==
    gl.op = "reset" => prev_loc = 0

(***************************************************************************)
(* Further properties of pipe_send_buf (SpecPipe).                         *)
(***************************************************************************)
\* C37: every trap of one pipe_send_buf call, the first and each
\* retransmission, presents the magic of the pipe handle, whatever the
\* receiver wrote into the header when it set the retry bit
C37_RetryKeepsMagic ==
    spc = "trap" => pipe_header_get_magic(head) = pipe_get_magic(pipe)

(***************************************************************************)
(* Properties of the data I/O callbacks over several iterations (SpecDio). *)
(***************************************************************************)
\* C38: skip_write_to_target is 0 whenever an iteration starts and when the
\* first send of the iteration traps, also after a reset and after an
\* iteration that ended at the breakpoint of an exit descriptor; so the
\* writer of the first send is not skipped: a pending input that fits is in
\* the buffer when the first pipe_send_buf returns
C38_SkipClearAtStart ==
    /\ gl.op \in {"start", "first"} => gl.arg = 0
    /\ spc = "s_start" => dio.skip_write_to_target = 0
    /\ (gl.op = "first" /\ gl.pre.shm.len > 0
            /\ gl.pre.shm.len <= gl.pre.left) =>
          /\ pipe_buf_used(head) = gl.pre.shm.len
          /\ data = SubSeq(gl.pre.shm.data, 1, gl.pre.shm.len)

\* the first send of the third iteration has received its input; the
\* iteration before has ended with a payload read by the reader or at the
\* breakpoint
C38_Witness ==
    /\ gl.op = "first"
    /\ gl.n = 3
    /\ gl.pre.shm.src = "harness"
    /\ pipe_buf_used(head) = 2
    /\ dio.haps >= 4

\* C39: every write of a record is inside the map: the index h XOR prev_loc
\* of every record lies in [0, MAP_SIZE), it is the bucket that was written,
\* no other index is ever written, and prev_loc is always below MAP_SIZE / 2
C39_WritesInsideMap ==
    /\ prev_loc \in 0..((MAP_SIZE \div 2) - 1)
    /\ DOMAIN afl_area.map \subseteq 0..(MAP_SIZE - 1)
    /\ (gl.op = "record" /\ gl.pre.area.mapped) =>
          LET idx == BitXor(MapLoc(gl.arg), gl.pre.prev)
          IN  /\ idx \in 0..(MAP_SIZE - 1)
              /\ idx \in DOMAIN afl_area.map
              /\ DOMAIN afl_area.map = DOMAIN gl.pre.area.map \cup {idx}

\* a record whose location and previous location are both large: the index
\* lies in the last quarter of the map
C39_Witness ==
    /\ gl.op = "record"
    /\ gl.pre.area.mapped
    /\ MapLoc(gl.arg) >= MAP_SIZE \div 2
    /\ gl.pre.prev >= MAP_SIZE \div 4
    /\ BitXor(MapLoc(gl.arg), gl.pre.prev) >= 3 * (MAP_SIZE \div 4)

(***************************************************************************)
(* Further properties of the buffers (SpecBuf).                            *)
(***************************************************************************)
\* C40: a pipe_grow_buf whose reallocation fails returns an error, and the
\* handle still refers to the buffer it referred to, allocated and in the
\* list, with its size, used-count and payload as they were: a call that
\* returns an error has changed nothing, and a call that has not replaced
\* the memory of the buffer does not return 0
C40_GrowFailureKeepsBuffer ==
    gl.op = "grow" =>
        /\ gl.rc # 0 =>
              /\ mem = gl.pre.mem
              /\ bufs = gl.pre.bufs
              /\ InList(bufs, gl.arg.buf)
        /\ mem = gl.pre.mem => gl.rc # 0

=============================================================================
